---- MODULE Spec2Model ----
(***************************************************************************)
(* A model of junco's filesystem layer (include/junco/fs.hpp, src/fs.cpp): *)
(* the ReadWriteGuard of the header, the File byte-level operations, the   *)
(* Directory caches and the FileSystem path walk, with the threads that    *)
(* call them interleaved at the granularity of the code's lock sections    *)
(* and host filesystem calls.                                              *)
(* With it, the two utilities of the library: the Stopwatch over a Clock   *)
(* (include/junco/time.hpp, src/time.cpp) and the StandardLogger with its  *)
(* replaceable log functions and default sinks (include/junco/log.hpp).    *)
(***************************************************************************)
EXTENDS Integers, Sequences, FiniteSets, TLC

\* ------------------------------------------------------------------ bounds
\* Threads that use one ReadWriteGuard.
GuardThreads == 3
\* Threads that call File / Directory / FileSystem operations.
NumThreads == 2
\* Calls made in one run, all threads together.
MaxCalls == 2
\* Largest position / count handed to File::read and File::write.
MaxPos == 1
\* Most segments of a path handed to FileSystem::open_file / open_directory.
MaxPathLen == 2

GThreads == 1..GuardThreads
Threads == 1..NumThreads

VARIABLES
  \* ReadWriteGuard (fs.hpp)
  writing,   \* std::atomic_bool writing
  reading,   \* std::atomic_int reading
  gpc,       \* position of each thread in get_read_lock / get_write_lock
  \* host filesystem
  host,      \* host path -> "none" | "file" | "dir"
  bytes,     \* host path -> contents of the file there
  bytes0,    \* the contents every host file had when the FileSystem was made
  host0,     \* the kind every host path had when the FileSystem was made
  \* objects of the FileSystem
  cdirs,     \* key path -> the Directory object held in cached_directories
  cfiles,    \* key path -> the File object held in cached_files
  flock,     \* key path of a File -> threads that hold its rw_mutex
  dlock,     \* key path of a Directory -> threads that hold its rw_mutex
  frefs,     \* Files a reference to which has been returned to callers
  \* threads
  pc,        \* position of each thread in its current call
  call,      \* the call each thread is in, with its locals
  ret,       \* what the last call of each thread returned
  seen,      \* contents the file had at some instant of the thread's call
  log,       \* the calls each thread has made so far
  crashed,   \* std::terminate was called
  \* clocks and stopwatches (time.hpp, time.cpp)
  tclock,    \* TestingClock::time
  clock,     \* the Clock: its start_time
  build,     \* which Stopwatch is built: the header's or the source file's
  sw,        \* each Stopwatch: start_time, is_started, and what it last did
  \* StandardLogger (log.hpp)
  functions, \* LogFunctions StandardLogger::functions
  lpc,       \* each thread's place in its log call, with the call's locals
  cout,      \* what std::cout has received
  cerr,      \* what std::cerr has received
  sent       \* the messages handed to sinks so far

gvars == <<writing, reading, gpc>>
hvars == <<host, bytes, bytes0, host0>>
ovars == <<cdirs, cfiles, flock, dlock, frefs>>
tvars == <<pc, call, ret, seen, log, crashed>>
timevars == <<tclock, clock, build, sw>>
logvars == <<functions, lpc, cout, cerr, sent>>
uvars == <<timevars, logvars>>
fsvars == <<gvars, hvars, ovars, tvars>>
vars == <<writing, reading, gpc, host, bytes, bytes0, host0, cdirs, cfiles, flock, dlock, frefs,
          pc, call, ret, seen, log, crashed,
          tclock, clock, build, sw, functions, lpc, cout, cerr, sent>>

\* ------------------------------------------------- clocks and stopwatches
\* Times the testing clock is set to, in seconds.
MaxTime == 2
Times == 0..MaxTime
\* The stopwatches made from the one Clock.
NumStopwatches == 2
Stopwatches == 1..NumStopwatches
\* The two Stopwatch implementations of the repository: the class template of
\* include/junco/time.hpp and the member functions of src/time.cpp.
Builds == {"header", "source"}

\* double Clock::get_time() const: T::now() - start_time, in seconds
clock_get_time == tclock - clock.start_time

\* Stopwatch(const clock_t &_clock): clock(_clock), start_time(0),
\* is_started(false). op and value are what the last call was and returned;
\* began is the clock time at the start that began the run, ended the clock
\* time at the last stop, and ran whether that stop found it running.
NewStopwatch ==
  [start_time |-> 0, is_started |-> FALSE, op |-> "none", value |-> 0,
   began |-> 0, ended |-> 0, ran |-> FALSE]

\* static void TestingClock::set_time(new_time)
SetTime(v) ==
  /\ tclock' = v
  /\ UNCHANGED <<clock, build, sw, fsvars, logvars>>

\* void Stopwatch::start(). The header returns at once when the stopwatch is
\* running (if (is_started) return;); the source file has no such test.
StartTakesEffect(b, s) == b = "source" \/ ~sw[s].is_started
Start(s) ==
  /\ sw' = [sw EXCEPT ![s] =
              IF StartTakesEffect(build, s)
              THEN [@ EXCEPT !.is_started = TRUE, !.start_time = clock_get_time,
                             !.began = IF sw[s].is_started THEN @ ELSE clock_get_time,
                             !.op = "start", !.value = 0, !.ended = 0, !.ran = FALSE]
              ELSE [@ EXCEPT !.op = "start", !.value = 0, !.ended = 0, !.ran = FALSE]]
  /\ UNCHANGED <<tclock, clock, build, fsvars, logvars>>

\* double Stopwatch::get_time(): is_started ? clock.get_time() - start_time : 0
stopwatch_get_time(s) ==
  IF sw[s].is_started THEN clock_get_time - sw[s].start_time ELSE 0
GetTime(s) ==
  /\ sw' = [sw EXCEPT ![s].op = "get_time", ![s].value = stopwatch_get_time(s)]
  /\ UNCHANGED <<tclock, clock, build, fsvars, logvars>>

\* double Stopwatch::stop(): if (!is_started) return 0 (header only);
\* auto time = get_time(); is_started = false; return time;
Stop(s) ==
  /\ sw' = [sw EXCEPT ![s].op = "stop",
                      ![s].value = IF build = "header" /\ ~sw[s].is_started THEN 0
                                   ELSE stopwatch_get_time(s),
                      ![s].is_started = FALSE,
                      ![s].ended = clock_get_time, ![s].ran = sw[s].is_started]
  /\ UNCHANGED <<tclock, clock, build, fsvars, logvars>>

\* bool Stopwatch::started() const
started(s) == sw[s].is_started

\* A Clock made at some time of the testing clock, with its stopwatches.
TimeInit ==
  /\ tclock \in 0..1
  /\ clock = [start_time |-> tclock]
  /\ build \in Builds
  /\ sw = [s \in Stopwatches |-> NewStopwatch]
\* No clock is used: it stands at zero and nothing is running.
NoTime ==
  /\ tclock = 0 /\ clock = [start_time |-> 0] /\ build = "header"
  /\ sw = [s \in Stopwatches |-> NewStopwatch]

\* -------------------------------------------------------- StandardLogger
\* Log calls made in one run, all threads together.
MaxLogs == 2
Levels == {"trace", "standard", "warning", "error", "fatal"}
\* The members of LogFunctions: one function pointer per level, and all.
Slots == Levels \cup {"all"}
\* A null function pointer, and the functions a caller may set: f for all,
\* g for a level.
Null == "null"
\* LogFunctions{}: every pointer null.
NoFunctions == [s \in Slots |-> Null]
\* The LogFunctions callers set: all is f or null, and at most one level has
\* a function, g.
LogFunctions ==
  {lf \in [Slots -> {Null, "f", "g"}] :
     /\ lf["all"] \in {Null, "f"}
     /\ \A l \in Levels : lf[l] \in {Null, "g"}
     /\ Cardinality({l \in Levels : lf[l] # Null}) <= 1}
Messages == {"m1", "m2"}

\* The stream a level's default sink writes to, and what it writes there:
\* std::osyncstream(std::cout) << msg << std::endl, or
\* std::osyncstream(std::cerr) << "[warning]" << msg << std::endl
DefaultStream(level) == IF level \in {"trace", "standard"} THEN "cout" ELSE "cerr"
DefaultLine(level, msg) ==
  IF level \in {"trace", "standard"} THEN <<msg, "endl">>
  ELSE <<"[" \o level \o "]", msg, "endl">>

\* The sink StandardLogger::trace .. fatal hand msg to:
\* if (functions.all) functions.all(msg);
\* else if (functions.<level>) functions.<level>(msg); else default_<level>(msg);
SelectLevelFirst(fns, level) ==
  IF fns[level] # Null THEN fns[level]
  ELSE IF fns["all"] # Null THEN fns["all"] ELSE DefaultStream(level)
SelectSink(fns, level) ==
  IF fns["all"] # Null THEN fns["all"]
  ELSE IF fns[level] # Null THEN fns[level] ELSE DefaultStream(level)

NoLog == [at |-> "idle", level |-> "", msg |-> "", fns |-> NoFunctions, to |-> "",
          buf |-> <<>>, todo |-> <<>>]
LogsBegun ==
  Len(sent) + Cardinality({t \in Threads : lpc[t].at # "idle"})

\* StandardLogger::set_log_functions(new_functions): functions = new_functions,
\* by the one thread there is while no thread is logging.
SetLogFunctions(lf) ==
  /\ \A t \in Threads : lpc[t].at = "idle"
  /\ functions' = lf
  /\ UNCHANGED <<lpc, cout, cerr, sent, fsvars, timevars>>

\* Thread t calls StandardLogger::trace .. fatal (level) with msg.
LogCall(t) ==
  \E level \in Levels, msg \in Messages :
    /\ lpc[t].at = "idle" /\ LogsBegun < MaxLogs
    /\ lpc' = [lpc EXCEPT ![t] = [NoLog EXCEPT !.at = "dispatch", !.level = level,
                                                !.msg = msg]]
    /\ UNCHANGED <<functions, cout, cerr, sent, fsvars, timevars>>

\* The tests of the function pointers; a default sink makes its osyncstream.
Dispatch(t) ==
  /\ lpc[t].at = "dispatch"
  /\ LET to == SelectSink(functions, lpc[t].level)
     IN  lpc' = [lpc EXCEPT ![t].fns = functions, ![t].to = to,
                            ![t].at = IF to \in {"cout", "cerr"} THEN "put" ELSE "sink",
                            ![t].todo = IF to \in {"cout", "cerr"}
                                        THEN DefaultLine(lpc[t].level, lpc[t].msg)
                                        ELSE <<>>]
  /\ UNCHANGED <<functions, cout, cerr, sent, fsvars, timevars>>

\* What a sink received: the message, its level, the functions set when it
\* was sent, where it went, and the threads that were logging then.
Delivery(t) ==
  [level |-> lpc[t].level, msg |-> lpc[t].msg, fns |-> lpc[t].fns, to |-> lpc[t].to,
   by |-> t, among |-> {u \in Threads : lpc[u].at # "idle"}]

\* functions.all(msg) or functions.<level>(msg): the function set by the
\* caller receives the message.
CallSink(t) ==
  /\ lpc[t].at = "sink"
  /\ sent' = Append(sent, Delivery(t))
  /\ lpc' = [lpc EXCEPT ![t] = NoLog]
  /\ UNCHANGED <<functions, cout, cerr, fsvars, timevars>>

\* A stream after operator<< of a piece on an osyncstream that wraps it: the
\* piece goes to the osyncstream's own buffer.
Unbuffered(strm, piece) == Append(strm, piece)
Buffered(strm, piece) == strm

\* operator<< on the osyncstream of a default sink: the next piece of the line.
Put(t) ==
  /\ lpc[t].at = "put"
  /\ LET piece == Head(lpc[t].todo)
     IN  /\ lpc' = [lpc EXCEPT ![t].buf = Append(@, piece), ![t].todo = Tail(@),
                                ![t].at = IF Len(lpc[t].todo) = 1 THEN "emit" ELSE "put"]
         /\ cout' = IF lpc[t].to = "cout" THEN Buffered(cout, piece) ELSE cout
         /\ cerr' = IF lpc[t].to = "cerr" THEN Buffered(cerr, piece) ELSE cerr
  /\ UNCHANGED <<functions, sent, fsvars, timevars>>

\* ~osyncstream() at the end of the statement: emit() hands the buffer to the
\* wrapped stream in one piece, under the lock of that stream's buffer.
Emit(t) ==
  /\ lpc[t].at = "emit"
  /\ cout' = IF lpc[t].to = "cout" THEN cout \o lpc[t].buf ELSE cout
  /\ cerr' = IF lpc[t].to = "cerr" THEN cerr \o lpc[t].buf ELSE cerr
  /\ sent' = Append(sent, Delivery(t))
  /\ lpc' = [lpc EXCEPT ![t] = NoLog]
  /\ UNCHANGED <<functions, fsvars, timevars>>

\* No function is set, nobody is logging, the streams are empty.
LogInit ==
  /\ functions = NoFunctions
  /\ lpc = [t \in Threads |-> NoLog]
  /\ cout = <<>> /\ cerr = <<>> /\ sent = <<>>

\* Neither the clock nor the logger is in use.
NoUtilities == NoTime /\ LogInit

\* ------------------------------------------------------- ReadWriteGuard
\* bool ReadWriteGuard::is_writing() const
is_writing == writing
\* bool ReadWriteGuard::is_reading() const
is_reading == reading > 0

\* await_read(): blocks until no writer; it is const, it registers nothing.
AwaitRead(t) ==
  /\ gpc[t] = "idle"
  /\ ~is_writing
  /\ gpc' = [gpc EXCEPT ![t] = "read_ready"]
  /\ UNCHANGED <<writing, reading, hvars, uvars, cdirs, cfiles, flock, dlock, frefs, tvars>>

\* ReadLock::ReadLock(guard): rw_guard.reading++
ReadLockCtor(t) ==
  /\ gpc[t] = "read_ready"
  /\ reading' = reading + 1
  /\ gpc' = [gpc EXCEPT ![t] = "reading"]
  /\ UNCHANGED <<writing, hvars, uvars, cdirs, cfiles, flock, dlock, frefs, tvars>>

\* ReadLock::~ReadLock(): releases read access
ReadLockDtor(t) ==
  /\ gpc[t] = "reading"
  /\ reading' = reading - 1
  /\ gpc' = [gpc EXCEPT ![t] = "idle"]
  /\ UNCHANGED <<writing, hvars, uvars, cdirs, cfiles, flock, dlock, frefs, tvars>>

\* await_write(): blocks until no reader and no writer; const as well.
AwaitWrite(t) ==
  /\ gpc[t] = "idle"
  /\ ~is_writing
  /\ ~is_reading
  /\ gpc' = [gpc EXCEPT ![t] = "write_ready"]
  /\ UNCHANGED <<writing, reading, hvars, uvars, cdirs, cfiles, flock, dlock, frefs, tvars>>

\* WriteLock::WriteLock(guard): rw_guard.writing = true
WriteLockCtor(t) ==
  /\ gpc[t] = "write_ready"
  /\ writing' = TRUE
  /\ gpc' = [gpc EXCEPT ![t] = "writing"]
  /\ UNCHANGED <<reading, hvars, uvars, cdirs, cfiles, flock, dlock, frefs, tvars>>

\* WriteLock::~WriteLock(): releases write access
WriteLockDtor(t) ==
  /\ gpc[t] = "writing"
  /\ writing' = FALSE
  /\ gpc' = [gpc EXCEPT ![t] = "idle"]
  /\ UNCHANGED <<reading, hvars, uvars, cdirs, cfiles, flock, dlock, frefs, tvars>>

\* ReadLock ReadWriteGuard::get_read_lock(): await_read(); return ReadLock(*this)
get_read_lock(t) == AwaitRead(t) \/ ReadLockCtor(t)
\* WriteLock ReadWriteGuard::get_write_lock(): await_write(); return WriteLock(*this)
get_write_lock(t) == AwaitWrite(t) \/ WriteLockCtor(t)

GuardReaders == {t \in GThreads : gpc[t] = "reading"}
GuardWriters == {t \in GThreads : gpc[t] = "writing"}

GuardInit ==
  /\ writing = FALSE
  /\ reading = 0
  /\ gpc = [t \in GThreads |-> "idle"]

GuardNext ==
  \E t \in GThreads :
    \/ get_read_lock(t)
    \/ ReadLockDtor(t)
    \/ get_write_lock(t)
    \/ WriteLockDtor(t)

\* ------------------------------------------------------------ host paths
\* The segments a path may hold: entry names, "." and "..".
Names == {"d", "f"}
Segs == Names \cup {".", ".."}

Front(p) == SubSeq(p, 1, Len(p) - 1)
Last(p) == p[Len(p)]

RECURSIVE SeqsUpTo(_, _)
\* The sequences over S of at most n elements.
SeqsUpTo(S, n) ==
  IF n = 0 THEN {<<>>}
  ELSE LET R == SeqsUpTo(S, n - 1) IN R \cup {Append(r, x) : r \in R, x \in S}

RECURSIVE Norm(_)
\* The host entry a path below the root names: the host resolves "." and "..".
Norm(p) ==
  IF p = <<>> THEN <<>>
  ELSE LET n == Norm(Front(p))
       IN  IF Last(p) = "." \/ Last(p) = "" THEN n
           ELSE IF Last(p) = ".." THEN (IF n = <<>> THEN <<>> ELSE Front(n))
           ELSE Append(n, Last(p))

RECURSIVE Depth(_)
\* How far below the root a path ends; -1 once it has left the root.
Depth(p) ==
  IF p = <<>> THEN 0
  ELSE LET d == Depth(Front(p))
       IN  IF d < 0 THEN -1
           ELSE IF Last(p) = ".." THEN d - 1
           ELSE IF Last(p) = "." THEN d ELSE d + 1

\* Host entries the model follows, and the relative paths callers hand in
\* (those that stay below the root).
HostPaths == SeqsUpTo(Names, MaxPathLen + 1)
Paths == {p \in SeqsUpTo(Segs, MaxPathLen) : Depth(p) >= 0}
\* The longer paths a single caller walks. open_directory takes '..' through
\* get_parent, so its paths may try to leave the root; those of open_file,
\* which hands '..' to the host, stay below it.
DirWalkPaths == SeqsUpTo(Segs, MaxPathLen + 1)
FileWalkPaths == {p \in DirWalkPaths : Depth(p) >= 0}
\* What follows the root name in the absolute paths callers hand in.
AbsPaths == SeqsUpTo(Segs, 1)

\* std::filesystem::exists(p)
Exists(p) == Norm(p) \in HostPaths /\ host[Norm(p)] # "none"
\* std::filesystem::is_directory(p, ec)
IsDirectory(p) == Norm(p) \in HostPaths /\ host[Norm(p)] = "dir"
IsFile(p) == Norm(p) \in HostPaths /\ host[Norm(p)] = "file"

\* --------------------------------------------------------------- File I/O
\* The bytes callers write and the byte of an untouched buffer cell.
Data == {<<1>>, <<2, 3>>}
\* The strings handed to write and set_contents: those, and the empty one.
Blobs == Data \cup {<<>>}
NUL == 0
\* The stream of a File whose open failed.
NoStream == <<"">>
\* std::filesystem::file_size(path, ec) on an error: static_cast<uintmax_t>(-1)
BadSize == -1

Max(a, b) == IF a >= b THEN a ELSE b

\* fstream.seekg(pos); fstream.read(&buff[0], count) into std::string(count, '\0')
ReadBytes(c, pos, count) ==
  [i \in 1..count |-> IF pos + i <= Len(c) THEN c[pos + i] ELSE NUL]

\* fstream.seekp(pos); fstream.write(data); fstream.flush()
WriteUnflushed(c, pos, d) == c
WriteAtStart(c, pos, d) ==
  IF d = <<>> THEN c
  ELSE [i \in 1..Max(Len(c), Len(d)) |-> IF i <= Len(d) THEN d[i] ELSE c[i]]
WriteTruncating(c, pos, d) ==
  IF d = <<>> \/ pos = BadSize THEN c
  ELSE [i \in 1..(pos + Len(d)) |->
          IF i > pos THEN d[i - pos] ELSE IF i <= Len(c) THEN c[i] ELSE NUL]
WriteAt(c, pos, d) ==
  IF d = <<>> \/ pos = BadSize THEN c
  ELSE [i \in 1..Max(Len(c), pos + Len(d)) |->
          IF i > pos /\ i <= pos + Len(d) THEN d[i - pos]
          ELSE IF i <= Len(c) THEN c[i] ELSE NUL]

NoCall == [kind |-> "none", f |-> <<>>, data |-> <<>>, pos |-> 0, count |-> 0,
           segs |-> <<>>, dir |-> <<>>, name |-> "",
           made |-> FALSE, ins |-> 0, rep |-> FALSE, abs |-> FALSE, absent |-> FALSE,
           hostq |-> FALSE, prior |-> {}]
NoRet == [kind |-> "none", bytes |-> <<>>, obj |-> <<>>, by |-> 0, path |-> <<>>, err |-> ""]
BytesRet(b) == [NoRet EXCEPT !.kind = "bytes", !.bytes = b]
VoidRet == [NoRet EXCEPT !.kind = "void"]
ErrorRet(e) == [NoRet EXCEPT !.kind = "error", !.err = e]

RECURSIVE CallsOf(_)
CallsOf(S) ==
  IF S = {} THEN 0
  ELSE LET t == CHOOSE x \in S : TRUE IN Len(log[t]) + CallsOf(S \ {t})
\* A thread may start a call: it is in none, and the run's budget is not spent.
MayCall(t) == pc[t] = "idle" /\ ~crashed /\ CallsOf(Threads) < MaxCalls

\* The host file a File's stream is attached to, and the one its path names.
StreamOf(f) == cfiles[f].stream
PathOf(f) == Norm(cfiles[f].path)
\* What the stream of f reads: nothing once its open has failed.
StreamBytes(f) == IF StreamOf(f) \in HostPaths THEN bytes[StreamOf(f)] ELSE <<>>

\* Every call made so far: the thread that made it and its place in the log.
CallsMade == {x \in Threads \X (1..MaxCalls) : x[2] <= Len(log[x[1]])}
CallAt(x) == log[x[1]][x[2]].c
ResultAt(x) == log[x[1]][x[2]].r

\* The calls that have returned.
Returned == {x \in CallsMade : ResultAt(x).kind # "none"}

\* Thread t enters call c at position at; prior records the calls that had
\* returned by then.
Begin(t, c, at) ==
  /\ pc' = [pc EXCEPT ![t] = at]
  /\ call' = [call EXCEPT ![t] = [c EXCEPT !.prior = Returned]]
  /\ log' = [log EXCEPT ![t] = Append(@, [c |-> [c EXCEPT !.prior = Returned], r |-> NoRet])]
  /\ ret' = [ret EXCEPT ![t] = NoRet]
  /\ seen' = [seen EXCEPT ![t] = IF c.f \in DOMAIN cfiles THEN {StreamBytes(c.f)} ELSE {}]

\* The call of thread t returns r (a value, or the exception it throws).
Return(t, r) ==
  /\ pc' = [pc EXCEPT ![t] = "idle"]
  /\ ret' = [ret EXCEPT ![t] = r]
  /\ log' = [log EXCEPT ![t][Len(log[t])].r = r]

\* The contents of host file h became c: every call in progress on it saw them.
Saw(h, c) ==
  seen' = [u \in Threads |->
             IF pc[u] # "idle" /\ call[u].f \in DOMAIN cfiles /\ StreamOf(call[u].f) = h
             THEN seen[u] \cup {c} ELSE seen[u]]

\* std::string File::read(pos, count)
CallRead(t) ==
  \E f \in frefs, pos \in 0..MaxPos, count \in 0..(MaxPos + 1) :
    /\ MayCall(t)
    /\ Begin(t, [NoCall EXCEPT !.kind = "read", !.f = f, !.pos = pos, !.count = count],
             "read_lock")
    /\ UNCHANGED <<gvars, hvars, uvars, ovars, crashed>>

\* std::string File::get_contents(): read(0, get_size())
CallGetContents(t) ==
  \E f \in frefs :
    /\ MayCall(t)
    /\ Begin(t, [NoCall EXCEPT !.kind = "get_contents", !.f = f], "get_size")
    /\ UNCHANGED <<gvars, hvars, uvars, ovars, crashed>>

\* void File::write(data, pos)
CallWrite(t) ==
  \E f \in frefs, d \in Blobs, pos \in 0..MaxPos :
    /\ MayCall(t)
    /\ Begin(t, [NoCall EXCEPT !.kind = "write", !.f = f, !.data = d, !.pos = pos],
             "write_lock")
    /\ UNCHANGED <<gvars, hvars, uvars, ovars, crashed>>

\* void File::append(data): write(data, get_size())
CallAppend(t) ==
  \E f \in frefs, d \in Data :
    /\ MayCall(t)
    /\ Begin(t, [NoCall EXCEPT !.kind = "append", !.f = f, !.data = d], "get_size")
    /\ UNCHANGED <<gvars, hvars, uvars, ovars, crashed>>

\* void File::clear()
CallClear(t) ==
  \E f \in frefs :
    /\ MayCall(t)
    /\ Begin(t, [NoCall EXCEPT !.kind = "clear", !.f = f], "clear_lock")
    /\ UNCHANGED <<gvars, hvars, uvars, ovars, crashed>>

\* void File::set_contents(new_contents): clear(); write(new_contents, 0)
CallSetContents(t) ==
  \E f \in frefs, d \in Blobs :
    /\ MayCall(t)
    /\ Begin(t, [NoCall EXCEPT !.kind = "set_contents", !.f = f, !.data = d],
             "clear_lock")
    /\ UNCHANGED <<gvars, hvars, uvars, ovars, crashed>>

\* The size the file had when the File was opened.
FileSizeAtOpen(f) == IF IsFile(cfiles[f].path) THEN Len(bytes0[PathOf(f)]) ELSE BadSize
\* std::filesystem::file_size(path, ec)
FileSize(f) == IF IsFile(cfiles[f].path) THEN Len(bytes[PathOf(f)]) ELSE BadSize

\* std::size_t File::get_size(), taking no lock. It is the argument of read
\* (get_contents) or of write (append), evaluated before the callee locks.
\* std::string(count, '\0') of read throws on the size of an error, and read
\* is noexcept.
get_size(t) ==
  /\ pc[t] = "get_size" /\ ~crashed
  /\ LET sz == FileSize(call[t].f)
     IN  IF call[t].kind = "append"
         THEN /\ call' = [call EXCEPT ![t].pos = sz]
              /\ pc' = [pc EXCEPT ![t] = "write_lock"]
              /\ crashed' = crashed
         ELSE /\ call' = [call EXCEPT ![t].pos = 0, ![t].count = Max(sz, 0)]
              /\ pc' = [pc EXCEPT ![t] = "read_lock"]
              /\ crashed' = (sz = BadSize)
  /\ UNCHANGED <<gvars, hvars, uvars, ovars, ret, seen, log>>

\* std::unique_lock(rw_mutex) can be taken: nobody holds the mutex.
UnlockedMutex(f) == TRUE
UniqueLockable(f) == flock[f] = {}

\* The std::shared_mutex rw_mutex of a Directory: the threads that hold it
\* shared and the thread that holds it alone.
NoHolders == [shared |-> {}, unique |-> {}]
\* std::shared_lock(rw_mutex) can be taken: nobody holds the mutex alone.
SharedLockable(d) == dlock[d].unique = {}
\* std::unique_lock(rw_mutex) of a Directory can be taken: nobody holds it.
\* The mutex is the Directory's own: the mutexes of its Files do not count.
OneMutexForAll(d) ==
  /\ dlock[d].unique = {} /\ dlock[d].shared = {}
  /\ \A f \in DOMAIN flock : flock[f] = {}
DirUniqueLockable(d) == dlock[d].unique = {} /\ dlock[d].shared = {}

\* auto lock = std::unique_lock(rw_mutex), in read, write and clear
Lock(t, at, next) ==
  /\ pc[t] = at /\ ~crashed
  /\ UniqueLockable(call[t].f)
  /\ flock' = [flock EXCEPT ![call[t].f] = @ \cup {t}]
  /\ pc' = [pc EXCEPT ![t] = next]
  /\ UNCHANGED <<gvars, hvars, uvars, cdirs, cfiles, dlock, frefs, call, ret, seen, log, crashed>>

Unlock(t) == flock' = [flock EXCEPT ![call[t].f] = @ \ {t}]

read_lock(t) == Lock(t, "read_lock", "read_io")
write_lock(t) == Lock(t, "write_lock", "write_io")
clear_lock(t) == Lock(t, "clear_lock", "clear_io")

\* File::read under the lock: clear(), seekg, read; then unlock and return buff
read_io(t) ==
  /\ pc[t] = "read_io" /\ ~crashed
  /\ Unlock(t)
  /\ Return(t, BytesRet(ReadBytes(StreamBytes(call[t].f), call[t].pos, call[t].count)))
  /\ UNCHANGED <<gvars, hvars, uvars, cdirs, cfiles, dlock, frefs, call, seen, crashed>>

\* File::write under the lock: clear(), seekp, write, flush; then unlock
write_io(t) ==
  /\ pc[t] = "write_io" /\ ~crashed
  /\ LET h == StreamOf(call[t].f)
         c == WriteAt(StreamBytes(call[t].f), call[t].pos, call[t].data)
     IN  IF h \in HostPaths
         THEN bytes' = [bytes EXCEPT ![h] = c] /\ Saw(h, c)
         ELSE UNCHANGED <<bytes, seen>>
  /\ Unlock(t)
  /\ Return(t, VoidRet)
  /\ UNCHANGED <<gvars, host, bytes0, host0, uvars, cdirs, cfiles, dlock, frefs, call, crashed>>

\* fstream.open(path, std::ios::in | std::ios::out | std::ios::trunc): what
\* the file holds once it is open.
OpenKeeping(c) == c
OpenTrunc(c) == <<>>

\* File::clear under the lock: fstream.close(); fstream.open(path, in|out|trunc)
clear_io(t) ==
  /\ pc[t] = "clear_io" /\ ~crashed
  /\ LET h == PathOf(call[t].f)
     IN  IF h \in HostPaths /\ host[h] # "dir"
         THEN /\ bytes' = [bytes EXCEPT ![h] = OpenTrunc(@)]
              /\ host' = [host EXCEPT ![h] = "file"]
              /\ cfiles' = [cfiles EXCEPT ![call[t].f].stream = h]
              /\ Saw(h, OpenTrunc(bytes[h]))
         ELSE /\ cfiles' = [cfiles EXCEPT ![call[t].f].stream = NoStream]
              /\ UNCHANGED <<bytes, host, seen>>
  /\ Unlock(t)
  /\ IF call[t].kind = "set_contents"
     THEN \* back in set_contents: write(new_contents, 0) comes next
          /\ pc' = [pc EXCEPT ![t] = "write_lock"]
          /\ call' = [call EXCEPT ![t].pos = 0]
          /\ UNCHANGED <<ret, log>>
     ELSE Return(t, VoidRet) /\ call' = call
  /\ UNCHANGED <<gvars, bytes0, host0, uvars, cdirs, dlock, frefs, crashed>>

FileCalls(t) ==
  \/ CallRead(t) \/ CallGetContents(t) \/ CallWrite(t)
  \/ CallAppend(t) \/ CallClear(t) \/ CallSetContents(t)

FileSteps(t) ==
  \/ get_size(t)
  \/ read_lock(t) \/ read_io(t)
  \/ write_lock(t) \/ write_io(t)
  \/ clear_lock(t) \/ clear_io(t)

\* One File, already cached and handed out, over a host file with some contents.
InitContents == {<<>>, <<4, 5>>}
TheFile == <<"f">>

ThreadInit ==
  /\ pc = [t \in Threads |-> "idle"]
  /\ call = [t \in Threads |-> NoCall]
  /\ ret = [t \in Threads |-> NoRet]
  /\ seen = [t \in Threads |-> {}]
  /\ log = [t \in Threads |-> <<>>]
  /\ crashed = FALSE

FileInit ==
  /\ GuardInit
  /\ \E c \in InitContents :
       /\ host = [p \in HostPaths |-> IF p = <<>> THEN "dir"
                                      ELSE IF p = TheFile THEN "file" ELSE "none"]
       /\ bytes = [p \in HostPaths |-> IF p = TheFile THEN c ELSE <<>>]
  /\ bytes0 = bytes /\ host0 = host
  /\ cdirs = <<>>
  /\ cfiles = (TheFile :> [by |-> 0, path |-> TheFile, stream |-> TheFile])
  /\ flock = (TheFile :> {})
  /\ dlock = (<<>> :> NoHolders)
  /\ frefs = {TheFile}
  /\ ThreadInit
  /\ NoUtilities

FileNext == \E t \in Threads : FileCalls(t) \/ FileSteps(t)

\* A ReadWriteGuard used by GuardThreads threads. Its two atomics have no
\* initializer: zero when value-initialized (C++20), indeterminate before.
GuardOnlyInit ==
  /\ writing \in BOOLEAN
  /\ reading \in 0..1
  /\ gpc = [t \in GThreads |-> "idle"]
  /\ host = [p \in HostPaths |-> "none"] /\ bytes = [p \in HostPaths |-> <<>>]
  /\ bytes0 = bytes /\ host0 = host
  /\ cdirs = <<>> /\ cfiles = <<>> /\ flock = <<>> /\ frefs = {}
  /\ dlock = (<<>> :> NoHolders)
  /\ ThreadInit
  /\ NoUtilities
SpecGuard == GuardOnlyInit /\ [][GuardNext]_vars

\* One File used by NumThreads threads.
SpecFile == FileInit /\ [][FileNext]_vars

\* ------------------------------------------------ Directory, FileSystem
\* A Directory is named by its key path: the keys under which it and its
\* ancestors were cached. Its path member is the root path followed by them.
FsKinds == {"fs_open_file", "fs_open_directory", "read_into_string", "open_and_write"}

\* bool Directory::directory_exists(name)
directory_exists(dir, name) ==
  Exists(Append(dir, name)) /\ IsDirectory(Append(dir, name))

\* bool Directory::file_exists(name)
file_exists_unchecked(dir, name) == Exists(Append(dir, name))
file_exists(dir, name) ==
  Exists(Append(dir, name)) /\ ~directory_exists(dir, name)

\* bool Directory::file_is_cached(name), under the shared lock
file_is_cached(dir, name) == Append(dir, name) \in DOMAIN cfiles
\* bool Directory::directory_is_cached(name), under the shared lock
directory_is_cached(dir, name) == Append(dir, name) \in DOMAIN cdirs

\* cached_files.insert({name, std::move(file)}): an entry already there stays
AssignFile(m, k, v) == (k :> v) @@ m
EvictingInsert(m, k, v) == (k :> v)
InsertFile(m, k, v) == IF k \in DOMAIN m THEN m ELSE m @@ (k :> v)
\* cached_directories.insert({name, std::move(directory)})
InsertNothing(m, k, v) == m
AssignDirectory(m, k, v) == (k :> v) @@ m
InsertDirectory(m, k, v) == IF k \in DOMAIN m THEN m ELSE m @@ (k :> v)

\* File::File(path): fstream(path, in | out | ate) leaves the host file as it is
OpenTruncating(b, h) == IF h \in HostPaths THEN [b EXCEPT ![h] = <<>>] ELSE b
OpenAtEnd(b, h) == b

\* The error kind an exception class stands for: FileNotFoundException and
\* EntryNotFoundException are the kind EntryNotFound, InvalidPathException
\* is the kind InvalidPath.
ErrorKind(e) == IF e \in {"FileNotFound", "EntryNotFound"} THEN "EntryNotFound" ELSE e

\* An exception is leaving Directory::open_file / open_directory, which are
\* noexcept: the final segment of a FileSystem walk is handled inside them.
InNoexcept(c) == c.kind \in FsKinds /\ Len(c.segs) = 1

Throw(t, e) ==
  IF InNoexcept(call[t])
  THEN crashed' = TRUE /\ UNCHANGED <<pc, ret, log>>
  ELSE Return(t, ErrorRet(e)) /\ crashed' = crashed

\* if (!path.is_relative()) throw InvalidPathException(...)
is_relative_unchecked(c) == TRUE
is_relative(c) == ~c.abs

\* if (it == --path.end()) return current_dir->open_...(entry_name);
IsFinalName(segs) == Len(segs) = 1 /\ Head(segs) \notin {".", ""}
IsFinal(segs) == Len(segs) = 1

\* open_directory only: if (entry_name == "." || entry_name.empty()) continue;
SkipsNothing(kind, s) == FALSE
SkipsSegment(kind, s) == kind = "fs_open_directory" /\ (s = "." \/ s = "")

\* Directory &Directory::get_parent() const:
\* if (!parent) throw InvalidPathException(...); return *parent;
get_parent_unchecked(d) ==
  [NoRet EXCEPT !.kind = "dir", !.obj = IF d = <<>> THEN <<>> ELSE cdirs[d].parent,
                !.path = IF d = <<>> THEN <<>> ELSE cdirs[d].parent]
get_parent(d) ==
  IF d = <<>> THEN ErrorRet("InvalidPath")
  ELSE LET p == cdirs[d].parent
       IN  [NoRet EXCEPT !.kind = "dir", !.obj = p, !.path = p,
                         !.by = IF p = <<>> THEN 0 ELSE cdirs[p].by]

RECURSIVE Walk(_)
\* The loop of FileSystem::open_file / open_directory up to its next call on
\* a Directory: where the thread goes (at), with which locals (c), or the
\* exception the loop throws (err).
Walk(c) ==
  IF c.segs = <<>>
  THEN [at |-> "idle", c |-> c, err |-> "FileNotFound"]
  ELSE LET s == Head(c.segs)
       IN  IF IsFinal(c.segs)
           THEN [at |-> IF c.kind = "fs_open_directory" THEN "od_exists" ELSE "of_exists",
                 c |-> [c EXCEPT !.name = s], err |-> ""]
           ELSE IF SkipsSegment(c.kind, s)
           THEN Walk([c EXCEPT !.segs = Tail(@)])
           ELSE IF c.kind = "fs_open_directory" /\ s = ".."
           THEN LET g == get_parent(c.dir)
                IN  IF g.kind = "error"
                    THEN [at |-> "idle", c |-> c, err |-> g.err]
                    ELSE Walk([c EXCEPT !.segs = Tail(@), !.dir = g.obj])
           ELSE [at |-> "gd_exists", c |-> [c EXCEPT !.name = s], err |-> ""]

\* An earlier call of the same kind with the same path has returned an entry.
Repeated(kind, p) ==
  \E x \in CallsMade :
    /\ CallAt(x).kind = kind /\ CallAt(x).segs = p
    /\ ResultAt(x).kind \in {"file", "dir"}

\* Thread t calls FileSystem::open_file / open_directory (c0.kind) with c0.segs.
Enter(t, c0) ==
  LET w == IF is_relative(c0) THEN Walk(c0)
           ELSE [at |-> "idle", c |-> c0, err |-> "InvalidPath"]
      r == IF w.err = "" THEN NoRet ELSE ErrorRet(w.err)
  IN  /\ pc' = [pc EXCEPT ![t] = w.at]
      /\ call' = [call EXCEPT ![t] = w.c]
      /\ ret' = [ret EXCEPT ![t] = r]
      /\ log' = [log EXCEPT ![t] = Append(@, [c |-> c0, r |-> r])]
      /\ seen' = [seen EXCEPT ![t] = {}]

\* File &FileSystem::open_file(path)
CallFsOpenFile(t) ==
  \E p \in Paths :
    /\ MayCall(t)
    /\ Enter(t, [NoCall EXCEPT !.kind = "fs_open_file", !.segs = p,
                               !.rep = Repeated("fs_open_file", p)])
    /\ UNCHANGED <<gvars, hvars, uvars, ovars, crashed>>

\* Directory &FileSystem::open_directory(path)
CallFsOpenDirectory(t) ==
  \E p \in Paths :
    /\ MayCall(t)
    /\ Enter(t, [NoCall EXCEPT !.kind = "fs_open_directory", !.segs = p,
                               !.rep = Repeated("fs_open_directory", p)])
    /\ UNCHANGED <<gvars, hvars, uvars, ovars, crashed>>

\* The thread body of TEST(FileTesting, ConcurrentRead):
\* auto &file = testing_fs.open_file(path); str = file.get_contents();
CallReadIntoString(t) ==
  \E p \in Paths :
    /\ MayCall(t)
    /\ Enter(t, [NoCall EXCEPT !.kind = "read_into_string", !.segs = p])
    /\ UNCHANGED <<gvars, hvars, uvars, ovars, crashed>>

\* File &Directory::get_file(name), on the root directory
CallDirGetFile(t) ==
  \E n \in Segs \ {".."} :
    /\ MayCall(t)
    /\ Begin(t, [NoCall EXCEPT !.kind = "dir_get_file", !.segs = <<n>>, !.name = n],
             "gf_exists")
    /\ UNCHANGED <<gvars, hvars, uvars, ovars, crashed>>

\* Directory &Directory::get_directory(name), on the root directory
CallDirGetDirectory(t) ==
  \E n \in Segs \ {".."} :
    /\ MayCall(t)
    /\ Begin(t, [NoCall EXCEPT !.kind = "dir_get_directory", !.segs = <<n>>, !.name = n],
             "gd_exists")
    /\ UNCHANGED <<gvars, hvars, uvars, ovars, crashed>>

\* void File::set_name(new_name)
CallSetName(t) ==
  \E f \in frefs, n \in Names :
    /\ MayCall(t)
    /\ Begin(t, [NoCall EXCEPT !.kind = "set_name", !.f = f, !.name = n], "set_name")
    /\ UNCHANGED <<gvars, hvars, uvars, ovars, crashed>>

Goto(t, at) ==
  /\ pc' = [pc EXCEPT ![t] = at]
  /\ UNCHANGED <<gvars, hvars, uvars, ovars, call, ret, seen, log, crashed>>

\* The call of thread t asks the host about the name it is at, in file_exists
\* or directory_exists: std::filesystem::exists(path / name), is_directory.
\* hostq records that it asked about a name one of the caches holds.
HostQuery(t) ==
  call' = [call EXCEPT ![t].hostq =
             @ \/ file_is_cached(call[t].dir, call[t].name)
               \/ directory_is_cached(call[t].dir, call[t].name)]

\* The host after an entry of the given kind was made at h.
MakeNothing(hst, h, kind) == hst
MakeEntry(hst, h, kind) == [hst EXCEPT ![h] = kind]

\* Directory::open_file: if (!file_exists(name)) create_file(name);
of_exists(t) ==
  /\ pc[t] = "of_exists" /\ ~crashed
  /\ pc' = [pc EXCEPT ![t] = IF file_exists(call[t].dir, call[t].name)
                              THEN "gf_exists" ELSE "of_create"]
  /\ HostQuery(t)
  /\ UNCHANGED <<gvars, hvars, uvars, ovars, ret, seen, log, crashed>>

\* Directory::create_file: auto _ = std::ofstream(path / name), which makes
\* the file, empties one that is there, and fails silently on a directory.
of_create(t) ==
  /\ pc[t] = "of_create" /\ ~crashed
  /\ LET h == Norm(Append(call[t].dir, call[t].name))
     IN  IF h \in HostPaths /\ host[h] # "dir"
         THEN /\ host' = MakeEntry(host, h, "file")
              /\ bytes' = [bytes EXCEPT ![h] = <<>>]
              /\ Saw(h, <<>>)
         ELSE UNCHANGED <<host, bytes, seen>>
  /\ call' = [call EXCEPT ![t].absent = ~Exists(Append(call[t].dir, call[t].name))]
  /\ pc' = [pc EXCEPT ![t] = "gf_exists"]
  /\ UNCHANGED <<gvars, bytes0, host0, uvars, ovars, ret, log, crashed>>

\* Directory::get_file: if (!file_exists(name)) throw InvalidPathException
gf_exists_late(t) ==
  /\ pc[t] = "gf_exists" /\ ~crashed
  /\ LET k == Append(call[t].dir, call[t].name)
     IN  IF file_exists(call[t].dir, call[t].name)
         THEN /\ pc' = [pc EXCEPT ![t] = "gf_cached"]
              /\ UNCHANGED <<ret, log, crashed, cfiles, flock>>
         ELSE /\ cfiles' = InsertFile(cfiles, k, [by |-> t, path |-> k, stream |-> NoStream])
              /\ flock' = IF k \in DOMAIN flock THEN flock ELSE flock @@ (k :> {})
              /\ Throw(t, "InvalidPath")
  /\ HostQuery(t)
  /\ UNCHANGED <<gvars, hvars, uvars, cdirs, dlock, frefs, seen>>
gf_exists(t) ==
  /\ pc[t] = "gf_exists" /\ ~crashed
  /\ IF file_exists(call[t].dir, call[t].name)
     THEN pc' = [pc EXCEPT ![t] = "gf_cached"] /\ UNCHANGED <<ret, log, crashed>>
     ELSE Throw(t, "InvalidPath")
  /\ HostQuery(t)
  /\ UNCHANGED <<gvars, hvars, uvars, ovars, seen>>

\* Directory::get_file: if (!file_is_cached(name)) cache_file(name);
gf_cached(t) ==
  /\ pc[t] = "gf_cached" /\ ~crashed
  /\ SharedLockable(call[t].dir)
  /\ Goto(t, IF file_is_cached(call[t].dir, call[t].name) THEN "gf_lock" ELSE "cf_new")

\* Directory::cache_file: auto file = std::unique_ptr<File>(new File(target_path))
cf_new(t) ==
  /\ pc[t] = "cf_new" /\ ~crashed
  /\ bytes' = OpenAtEnd(bytes, Norm(Append(call[t].dir, call[t].name)))
  /\ call' = [call EXCEPT ![t].made = TRUE]
  /\ pc' = [pc EXCEPT ![t] = "cf_lock"]
  /\ UNCHANGED <<gvars, host, bytes0, host0, uvars, ovars, ret, seen, log, crashed>>

\* A thread takes, and gives back, the rw_mutex of the Directory it is in.
TakeUnique(t) == dlock' = [dlock EXCEPT ![call[t].dir].unique = @ \cup {t}]
TakeShared(t) == dlock' = [dlock EXCEPT ![call[t].dir].shared = @ \cup {t}]
HeldOn(m, d, t) == m
Released(m, d, t) == [m EXCEPT ![d] = [shared |-> @.shared \ {t}, unique |-> @.unique \ {t}]]

\* Directory::cache_file: auto lock = std::unique_lock(rw_mutex);
cf_lock(t) ==
  /\ pc[t] = "cf_lock" /\ ~crashed
  /\ DirUniqueLockable(call[t].dir)
  /\ TakeUnique(t)
  /\ pc' = [pc EXCEPT ![t] = "cf_insert"]
  /\ UNCHANGED <<gvars, hvars, uvars, cdirs, cfiles, flock, frefs, call, ret, seen, log, crashed>>

\* Directory::cache_file under the lock: cached_files.insert({name,
\* std::move(file)}); a File that was not inserted is destroyed with the
\* statement; the lock goes with the scope.
cf_insert(t) ==
  /\ pc[t] = "cf_insert" /\ ~crashed
  /\ LET k == Append(call[t].dir, call[t].name)
         file == [by |-> t, path |-> k,
                  stream |-> IF IsFile(k) THEN Norm(k) ELSE NoStream]
     IN  /\ cfiles' = InsertFile(cfiles, k, file)
         /\ flock' = IF k \in DOMAIN flock THEN flock ELSE flock @@ (k :> {})
         /\ call' = [call EXCEPT ![t].ins = IF cfiles' = cfiles THEN @ ELSE @ + 1]
  /\ dlock' = Released(dlock, call[t].dir, t)
  /\ pc' = [pc EXCEPT ![t] = "gf_lock"]
  /\ UNCHANGED <<gvars, hvars, uvars, cdirs, frefs, ret, seen, log, crashed>>

\* Directory::get_file: auto lock = std::shared_lock(rw_mutex);
gf_lock(t) ==
  /\ pc[t] = "gf_lock" /\ ~crashed
  /\ SharedLockable(call[t].dir)
  /\ TakeShared(t)
  /\ pc' = [pc EXCEPT ![t] = "gf_at"]
  /\ UNCHANGED <<gvars, hvars, uvars, cdirs, cfiles, flock, frefs, call, ret, seen, log, crashed>>

\* Directory::get_file under the lock: return *cached_files.at(name); the
\* lock goes with the scope, on the return and on the throw of at().
gf_at(t) ==
  /\ pc[t] = "gf_at" /\ ~crashed
  /\ LET k == Append(call[t].dir, call[t].name)
     IN  IF k \notin DOMAIN cfiles
         THEN Throw(t, "out_of_range") /\ UNCHANGED <<call, seen, frefs>>
         ELSE /\ frefs' = frefs \cup {k}
              /\ crashed' = crashed
              /\ IF call[t].kind = "read_into_string"
                 THEN \* back in the thread body: file.get_contents() comes next
                      /\ call' = [call EXCEPT ![t].f = k]
                      /\ pc' = [pc EXCEPT ![t] = "get_size"]
                      /\ seen' = [seen EXCEPT ![t] = {StreamBytes(k)}]
                      /\ UNCHANGED <<ret, log>>
                 ELSE IF call[t].kind = "open_and_write"
                 THEN \* back in the thread body: file.write(data, 0) comes next
                      /\ call' = [call EXCEPT ![t].f = k, ![t].pos = 0]
                      /\ pc' = [pc EXCEPT ![t] = "write_lock"]
                      /\ seen' = [seen EXCEPT ![t] = {StreamBytes(k)}]
                      /\ UNCHANGED <<ret, log>>
                 ELSE /\ Return(t, [NoRet EXCEPT !.kind = "file", !.obj = k,
                                      !.by = cfiles[k].by, !.path = cfiles[k].path])
                      /\ UNCHANGED <<call, seen>>
  /\ dlock' = Released(dlock, call[t].dir, t)
  /\ UNCHANGED <<gvars, hvars, uvars, cdirs, cfiles, flock>>

\* Directory::open_directory: if (!directory_exists(name)) create_directory(name);
od_exists(t) ==
  /\ pc[t] = "od_exists" /\ ~crashed
  /\ pc' = [pc EXCEPT ![t] = IF directory_exists(call[t].dir, call[t].name)
                              THEN "gd_exists" ELSE "od_create"]
  /\ HostQuery(t)
  /\ UNCHANGED <<gvars, hvars, uvars, ovars, ret, seen, log, crashed>>

\* Directory::create_directory: std::filesystem::create_directory(path / name),
\* which throws when the entry is there and is no directory; it is noexcept.
od_create(t) ==
  /\ pc[t] = "od_create" /\ ~crashed
  /\ LET h == Norm(Append(call[t].dir, call[t].name))
     IN  IF h \in HostPaths /\ host[h] # "file"
         THEN /\ host' = MakeEntry(host, h, "dir")
              /\ pc' = [pc EXCEPT ![t] = "gd_exists"]
              /\ crashed' = crashed
         ELSE /\ crashed' = TRUE
              /\ UNCHANGED <<host, pc>>
  /\ call' = [call EXCEPT ![t].absent = ~Exists(Append(call[t].dir, call[t].name))]
  /\ UNCHANGED <<gvars, bytes, bytes0, host0, uvars, ovars, ret, seen, log>>

\* A get_directory that makes the directory it does not find.
gd_or_create(t) ==
  /\ pc[t] = "gd_exists" /\ ~crashed
  /\ pc' = [pc EXCEPT ![t] = IF directory_exists(call[t].dir, call[t].name)
                              THEN "gd_cached" ELSE "od_create"]
  /\ HostQuery(t)
  /\ UNCHANGED <<gvars, hvars, uvars, ovars, ret, seen, log, crashed>>

\* Directory::get_directory: if (!directory_exists(name)) throw InvalidPathException
gd_exists(t) ==
  /\ pc[t] = "gd_exists" /\ ~crashed
  /\ IF directory_exists(call[t].dir, call[t].name)
     THEN pc' = [pc EXCEPT ![t] = "gd_cached"] /\ UNCHANGED <<ret, log, crashed>>
     ELSE Throw(t, "InvalidPath")
  /\ HostQuery(t)
  /\ UNCHANGED <<gvars, hvars, uvars, ovars, seen>>

\* Directory::get_directory: if (!directory_is_cached(name)) cache_directory(name);
gd_cached(t) ==
  /\ pc[t] = "gd_cached" /\ ~crashed
  /\ SharedLockable(call[t].dir)
  /\ Goto(t, IF directory_is_cached(call[t].dir, call[t].name) THEN "gd_lock" ELSE "cd_lock")

\* Directory::cache_directory of Directory p by thread t:
\* auto target_path = path / name; new Directory(target_path, this)
ParentlessDirectory(t, p, name) == [by |-> t, path |-> Append(p, name), parent |-> <<>>]
NewDirectory(t, p, name) == [by |-> t, path |-> Append(p, name), parent |-> p]

\* Directory::cache_directory: new Directory(target_path, this);
\* auto lock = std::unique_lock(rw_mutex);
cd_lock(t) ==
  /\ pc[t] = "cd_lock" /\ ~crashed
  /\ DirUniqueLockable(call[t].dir)
  /\ TakeUnique(t)
  /\ pc' = [pc EXCEPT ![t] = "cd_insert"]
  /\ UNCHANGED <<gvars, hvars, uvars, cdirs, cfiles, flock, frefs, call, ret, seen, log, crashed>>

\* Directory::cache_directory under the lock:
\* cached_directories.insert({name, std::move(directory)}); the lock goes
\* with the scope. The Directory inserted has a mutex of its own.
cd_insert(t) ==
  /\ pc[t] = "cd_insert" /\ ~crashed
  /\ LET k == Append(call[t].dir, call[t].name)
     IN  /\ cdirs' = InsertDirectory(cdirs, k, NewDirectory(t, call[t].dir, call[t].name))
         /\ call' = [call EXCEPT ![t].made = TRUE,
                                 ![t].ins = IF cdirs' = cdirs THEN @ ELSE @ + 1]
         /\ dlock' = LET m == Released(dlock, call[t].dir, t)
                     IN  IF k \in DOMAIN m THEN m ELSE m @@ (k :> NoHolders)
  /\ pc' = [pc EXCEPT ![t] = "gd_lock"]
  /\ UNCHANGED <<gvars, hvars, uvars, cfiles, flock, frefs, ret, seen, log, crashed>>

\* Directory::get_directory: auto lock = std::shared_lock(rw_mutex);
gd_lock(t) ==
  /\ pc[t] = "gd_lock" /\ ~crashed
  /\ SharedLockable(call[t].dir)
  /\ TakeShared(t)
  /\ pc' = [pc EXCEPT ![t] = "gd_at"]
  /\ UNCHANGED <<gvars, hvars, uvars, cdirs, cfiles, flock, frefs, call, ret, seen, log, crashed>>

\* Directory::get_directory under the lock: return *cached_directories.at(name);
\* the lock goes with the scope; then the loop of FileSystem::open_* goes on
\* from the directory returned.
gd_at(t) ==
  /\ pc[t] = "gd_at" /\ ~crashed
  /\ LET k == Append(call[t].dir, call[t].name)
     IN  IF k \notin DOMAIN cdirs
         THEN Throw(t, "out_of_range") /\ call' = call
         ELSE IF call[t].kind \in FsKinds /\ Len(call[t].segs) > 1
         THEN LET w == Walk([call[t] EXCEPT !.dir = k, !.segs = Tail(@)])
              IN  /\ call' = [call EXCEPT ![t] = w.c]
                  /\ crashed' = crashed
                  /\ IF w.err = ""
                     THEN pc' = [pc EXCEPT ![t] = w.at] /\ UNCHANGED <<ret, log>>
                     ELSE Return(t, ErrorRet(w.err))
         ELSE /\ Return(t, [NoRet EXCEPT !.kind = "dir", !.obj = k,
                              !.by = cdirs[k].by, !.path = cdirs[k].path])
              /\ UNCHANGED <<call, crashed>>
  /\ dlock' = Released(dlock, call[t].dir, t)
  /\ UNCHANGED <<gvars, hvars, uvars, cdirs, cfiles, flock, frefs, seen>>

\* File::set_name: auto new_path = path.replace_filename(new_name), which
\* changes path itself; std::filesystem::rename(path, new_path), which throws
\* when path names nothing (set_name is noexcept); path = new_path. No lock.
set_name(t) ==
  /\ pc[t] = "set_name" /\ ~crashed
  /\ LET f == call[t].f
         new_path == Append(Front(cfiles[f].path), call[t].name)
     IN  /\ cfiles' = [cfiles EXCEPT ![f].path = new_path]
         /\ IF Exists(new_path)
            THEN Return(t, VoidRet) /\ crashed' = crashed
            ELSE crashed' = TRUE /\ UNCHANGED <<pc, ret, log>>
  /\ UNCHANGED <<gvars, hvars, uvars, cdirs, flock, dlock, frefs, call, seen>>

\* File::set_name writes path while another thread reads it in get_size or
\* clear, with no lock between them: a data race, after which anything goes.
set_name_race(t) ==
  /\ pc[t] = "set_name" /\ ~crashed
  /\ \E u \in Threads \ {t} :
       pc[u] \in {"get_size", "clear_io"} /\ call[u].f = call[t].f
  /\ crashed' = TRUE
  /\ UNCHANGED <<gvars, hvars, uvars, ovars, pc, call, ret, seen, log>>

FsCalls(t) ==
  \/ CallFsOpenFile(t) \/ CallFsOpenDirectory(t) \/ CallReadIntoString(t)
  \/ CallDirGetFile(t) \/ CallDirGetDirectory(t) \/ CallSetName(t)

FsSteps(t) ==
  \/ of_exists(t) \/ of_create(t)
  \/ gf_exists(t) \/ gf_cached(t) \/ cf_new(t) \/ cf_lock(t) \/ cf_insert(t)
  \/ gf_lock(t) \/ gf_at(t)
  \/ od_exists(t) \/ od_create(t)
  \/ gd_exists(t) \/ gd_cached(t) \/ cd_lock(t) \/ cd_insert(t)
  \/ gd_lock(t) \/ gd_at(t)
  \/ set_name(t) \/ set_name_race(t)
  \/ get_size(t) \/ read_lock(t) \/ read_io(t)

\* A FileSystem over a root that holds directory d with file d/f, and maybe
\* file f; nothing is cached yet.
FsInit ==
  /\ GuardInit
  /\ \E k \in {"file", "none"} :
       /\ host = [p \in HostPaths |->
                    IF p = <<>> \/ p = <<"d">> THEN "dir"
                    ELSE IF p = <<"d", "f">> THEN "file"
                    ELSE IF p = <<"f">> THEN k ELSE "none"]
       /\ bytes = [p \in HostPaths |-> IF host[p] = "file" THEN <<4, 5>> ELSE <<>>]
  /\ bytes0 = bytes /\ host0 = host
  /\ cdirs = <<>> /\ cfiles = <<>> /\ flock = <<>> /\ frefs = {}
  /\ dlock = (<<>> :> NoHolders)
  /\ ThreadInit
  /\ NoUtilities

FsNext == \E t \in Threads : FsCalls(t) \/ FsSteps(t)

\* One FileSystem used by NumThreads threads.
SpecFs == FsInit /\ [][FsNext]_vars

\* ------------------------------------------------- threads that open files
\* A thread body that opens a file and writes to it:
\* auto &file = testing_fs.open_file(path); file.write(data, 0);
CallOpenAndWrite(t) ==
  \E p \in Paths, d \in Data :
    /\ MayCall(t)
    /\ Enter(t, [NoCall EXCEPT !.kind = "open_and_write", !.segs = p, !.data = d])
    /\ UNCHANGED <<gvars, hvars, uvars, ovars, crashed>>

OpenSteps(t) ==
  \/ of_exists(t) \/ of_create(t)
  \/ gf_exists(t) \/ gf_cached(t) \/ cf_new(t) \/ cf_lock(t) \/ cf_insert(t)
  \/ gf_lock(t) \/ gf_at(t)
  \/ gd_exists(t) \/ gd_cached(t) \/ cd_lock(t) \/ cd_insert(t)
  \/ gd_lock(t) \/ gd_at(t)
  \/ write_lock(t) \/ write_io(t)

OpenNext == \E t \in Threads : CallFsOpenFile(t) \/ CallOpenAndWrite(t) \/ OpenSteps(t)

\* One FileSystem whose threads open files, some of them to write.
SpecOpen == FsInit /\ [][OpenNext]_vars

\* The same threads under a fair scheduler: a thread that can take the next
\* step of the call it is in takes it in the end. Nothing makes a thread
\* begin a call.
SpecFsFair == SpecFs /\ \A t \in Threads : WF_vars(FsSteps(t))

\* --------------------------------------------------- one caller, long walks
\* File &FileSystem::open_file(path), relative or absolute path
CallWalkOpenFile(t) ==
  \E p \in FileWalkPaths, a \in BOOLEAN :
    /\ a => p \in AbsPaths
    /\ MayCall(t)
    /\ Enter(t, [NoCall EXCEPT !.kind = "fs_open_file", !.segs = p, !.abs = a,
                               !.rep = Repeated("fs_open_file", p)])
    /\ UNCHANGED <<gvars, hvars, uvars, ovars, crashed>>

\* Directory &FileSystem::open_directory(path), relative or absolute path
CallWalkOpenDirectory(t) ==
  \E p \in DirWalkPaths, a \in BOOLEAN :
    /\ a => p \in AbsPaths
    /\ MayCall(t)
    /\ Enter(t, [NoCall EXCEPT !.kind = "fs_open_directory", !.segs = p, !.abs = a,
                               !.rep = Repeated("fs_open_directory", p)])
    /\ UNCHANGED <<gvars, hvars, uvars, ovars, crashed>>

\* Directory &Directory::get_parent(), on the root or on a cached Directory
CallGetParent(t) ==
  \E d \in {<<>>} \cup DOMAIN cdirs :
    /\ MayCall(t)
    /\ LET c == [NoCall EXCEPT !.kind = "get_parent", !.dir = d]
       IN  /\ call' = [call EXCEPT ![t] = c]
           /\ ret' = [ret EXCEPT ![t] = get_parent(d)]
           /\ log' = [log EXCEPT ![t] = Append(@, [c |-> c, r |-> get_parent(d)])]
           /\ seen' = [seen EXCEPT ![t] = {}]
    /\ UNCHANGED <<gvars, hvars, uvars, ovars, pc, crashed>>

WalkSteps(t) ==
  \/ of_exists(t) \/ of_create(t)
  \/ gf_exists(t) \/ gf_cached(t) \/ cf_new(t) \/ cf_lock(t) \/ cf_insert(t)
  \/ gf_lock(t) \/ gf_at(t)
  \/ od_exists(t) \/ od_create(t)
  \/ gd_exists(t) \/ gd_cached(t) \/ cd_lock(t) \/ cd_insert(t)
  \/ gd_lock(t) \/ gd_at(t)

\* The thread that walks.
Walker == 1

WalkNext ==
  \/ CallWalkOpenFile(Walker) \/ CallWalkOpenDirectory(Walker) \/ CallGetParent(Walker)
  \/ WalkSteps(Walker)

\* One FileSystem, one caller, paths of up to MaxPathLen + 1 segments.
SpecWalk == FsInit /\ [][WalkNext]_vars

\* ------------------------------------------------------ the utilities alone
\* No FileSystem is in use.
NoFileSystem ==
  /\ GuardInit
  /\ host = [p \in HostPaths |-> "none"] /\ bytes = [p \in HostPaths |-> <<>>]
  /\ bytes0 = bytes /\ host0 = host
  /\ cdirs = <<>> /\ cfiles = <<>> /\ flock = <<>> /\ frefs = {}
  /\ dlock = (<<>> :> NoHolders)
  /\ ThreadInit

TimeNext ==
  \/ \E v \in Times : SetTime(v)
  \/ \E s \in Stopwatches : Start(s) \/ GetTime(s) \/ Stop(s)
\* One Clock over the testing clock, and the stopwatches made from it.
TimeOnlyInit == NoFileSystem /\ TimeInit /\ LogInit
SpecTime == TimeOnlyInit /\ [][TimeNext]_vars

\* The thread that sets the log functions and logs.
Caller == 1
LoggerNext ==
  \/ \E lf \in LogFunctions : SetLogFunctions(lf)
  \/ LogCall(Caller) \/ Dispatch(Caller) \/ CallSink(Caller)
  \/ Put(Caller) \/ Emit(Caller)
\* One caller of StandardLogger who sets log functions and logs.
LogOnlyInit == NoFileSystem /\ NoTime /\ LogInit
SpecLogger == LogOnlyInit /\ [][LoggerNext]_vars

LogThreadsNext == \E t \in Threads : LogCall(t) \/ Dispatch(t) \/ Put(t) \/ Emit(t)
\* NumThreads threads that log through the default sinks.
SpecLogThreads == LogOnlyInit /\ [][LogThreadsNext]_vars

\* ------------------------------------------------------------ properties
AllIdle == \A t \in Threads : pc[t] = "idle"
InIO(t) == pc[t] \in {"read_io", "write_io", "clear_io"}
AtLock(t) == pc[t] \in {"read_lock", "write_lock", "clear_lock"}

\* s occurs in c at offset i (contiguous).
OccursAt(s, c, i) == i + Len(s) <= Len(c) /\ SubSeq(c, i + 1, i + Len(s)) = s
OccursOnce(s, c) == Cardinality({i \in 0..Len(c) : OccursAt(s, c, i)}) = 1

RECURSIVE SumLen(_)
SumLen(S) ==
  IF S = {} THEN 0
  ELSE LET x == CHOOSE y \in S : TRUE IN Len(CallAt(x).data) + SumLen(S \ {x})

\* C1: in every reachable state of threads that take and release read and
\* write locks of one ReadWriteGuard, at most one writer holds the guard and
\* then no reader does: two writers, or a writer and a reader, never hold it
\* together.
GuardExclusive ==
  /\ Cardinality(GuardWriters) <= 1
  /\ (GuardWriters # {} => GuardReaders = {})

\* C2: when the threads each append one distinct string to the same File and
\* all have finished, the file holds every string exactly once and contiguous,
\* and its size is the initial size plus the lengths of the strings.
ConcurrentAppendIntegrity ==
  \A f \in frefs :
    ( /\ AllIdle
      /\ \A x \in CallsMade : CallAt(x).kind = "append" /\ CallAt(x).f = f
      /\ \A t \in Threads : Len(log[t]) <= 1
      /\ \A x, y \in CallsMade : x # y => CallAt(x).data # CallAt(y).data )
    => /\ Len(StreamBytes(f)) = Len(bytes0[StreamOf(f)]) + SumLen(CallsMade)
       /\ \A x \in CallsMade : OccursOnce(CallAt(x).data, StreamBytes(f))

\* C3: set_contents is atomic: while a thread is between the truncation and
\* the write of its set_contents, no other thread is inside a stream access
\* (read, write, clear) of the same File.
SetContentsAtomic ==
  \A t \in Threads :
    (call[t].kind = "set_contents" /\ pc[t] = "write_lock")
    => \A u \in Threads \ {t} : ~(InIO(u) /\ call[u].f = call[t].f)

\* C4: with only reads and writes/appends going on, a get_contents, or a
\* read whose range lies inside the file, returns the requested range of the
\* file as it was at one instant between its call and its return.
RangeOf(c, pos, count) ==
  IF pos >= Len(c) THEN <<>>
  ELSE SubSeq(c, pos + 1, IF pos + count <= Len(c) THEN pos + count ELSE Len(c))
ReadsSeeOneInstant ==
  (\A x \in CallsMade : CallAt(x).kind \in {"read", "get_contents", "write", "append"})
  => \A t \in Threads :
       (pc[t] = "idle" /\ ret[t].kind = "bytes")
       => \/ /\ call[t].kind = "get_contents"
             /\ ret[t].bytes \in seen[t]
          \/ /\ call[t].kind = "read"
             /\ \/ \E c \in seen[t] : call[t].pos + call[t].count > Len(c)
                \/ \E c \in seen[t] :
                     ret[t].bytes = RangeOf(c, call[t].pos, call[t].count)

\* C5: the stream accesses of one File never overlap: at most one thread is
\* inside the locked section of read, write or clear.
StreamAccessSerialized ==
  \A f \in DOMAIN flock :
    /\ Cardinality(flock[f]) <= 1
    /\ Cardinality({t \in Threads : InIO(t) /\ call[t].f = f}) <= 1
\* A thread is inside a stream access while another one waits for the lock.
StreamAccessContended ==
  \E t, u \in Threads :
    /\ t # u /\ InIO(t) /\ AtLock(u)
    /\ call[t].f = call[u].f
    /\ flock[call[t].f] = {t}

NoSetName == \A x \in CallsMade : CallAt(x).kind # "set_name"
Entry(r) == r.kind \in {"file", "dir"}

\* C6: when threads resolve the same path with FileSystem::open_file and call
\* get_contents on the file, and nothing writes to it, every call that
\* returns gives the complete contents the file had from the start.
ConcurrentReadsAgree ==
  NoSetName =>
    \A x \in CallsMade :
      (CallAt(x).kind = "read_into_string" /\ ResultAt(x).kind = "bytes")
      => ResultAt(x).bytes = bytes0[Norm(CallAt(x).segs)]
\* Two threads have each constructed a File for the same path, and both have
\* read the full contents.
ConcurrentReadsRaced ==
  \E t, u \in Threads :
    /\ t # u /\ pc[t] = "idle" /\ pc[u] = "idle"
    /\ call[t].kind = "read_into_string" /\ call[u].kind = "read_into_string"
    /\ call[t].made /\ call[u].made /\ call[t].f = call[u].f
    /\ ret[t].kind = "bytes" /\ ret[t].bytes = <<4, 5>> /\ ret[u] = ret[t]

\* C7: every file or directory reference a call has returned names the one
\* object the cache holds under that key, also when several threads found the
\* name uncached and each tried to insert it; and get_file / get_directory on
\* a name that was there from the start, with the right kind, do not fail.
CacheRaceCollapses ==
  \A x \in CallsMade :
    LET c == CallAt(x)
        r == ResultAt(x)
    IN  /\ r.kind = "file" => r.obj \in DOMAIN cfiles /\ cfiles[r.obj].by = r.by
        /\ r.kind = "dir" => r.obj \in DOMAIN cdirs /\ cdirs[r.obj].by = r.by
        /\ (c.kind = "dir_get_file" /\ host0[Norm(c.segs)] = "file" /\ r.kind # "none")
           => r.kind = "file" /\ r.obj = c.segs
        /\ (c.kind = "dir_get_directory" /\ host0[Norm(c.segs)] = "dir" /\ r.kind # "none")
           => r.kind = "dir" /\ r.obj = c.segs
\* Two threads found the same name uncached, both constructed a File, and
\* both got the same object back.
CacheRaceHappened ==
  \E t, u \in Threads :
    /\ t # u /\ pc[t] = "idle" /\ pc[u] = "idle"
    /\ call[t].kind = "dir_get_file" /\ call[u].kind = "dir_get_file"
    /\ call[t].made /\ call[u].made
    /\ ret[t].kind = "file" /\ ret[u] = ret[t]

\* The File objects alive for host path h: the cached ones, and the ones a
\* thread has constructed in cache_file and not yet inserted or destroyed.
FilesAlive(h) ==
  Cardinality({k \in DOMAIN cfiles : Norm(k) = h})
  + Cardinality({t \in Threads :
                   /\ pc[t] \in {"cf_lock", "cf_insert"}
                   /\ Norm(Append(call[t].dir, call[t].name)) = h})

\* C8: at every moment at most one File object exists for any host path.
OneFilePerHostPath == \A h \in HostPaths : FilesAlive(h) <= 1

\* C9: calls of FileSystem::open_file (or open_directory) with the same path
\* that return an entry return the same object with the same path, and a call
\* made after one with the same path has returned adds no cache entry.
ResolutionIdempotent ==
  /\ NoSetName =>
       \A x, y \in CallsMade :
         ( /\ CallAt(x).kind \in {"fs_open_file", "fs_open_directory"}
           /\ CallAt(y).kind = CallAt(x).kind /\ CallAt(y).segs = CallAt(x).segs
           /\ Entry(ResultAt(x)) /\ Entry(ResultAt(y)) )
         => ResultAt(x) = ResultAt(y)
  /\ \A t \in Threads :
       (call[t].kind \in {"fs_open_file", "fs_open_directory"} /\ call[t].rep)
       => call[t].ins = 0
\* A repeated call through a directory has returned its entry.
ResolutionRepeated ==
  \E x \in CallsMade :
    /\ CallAt(x).kind \in {"fs_open_file", "fs_open_directory"}
    /\ CallAt(x).rep /\ Len(CallAt(x).segs) = 2 /\ Entry(ResultAt(x))

\* C10: no key is in both the file cache and the directory cache.
CachesDisjoint == DOMAIN cfiles \cap DOMAIN cdirs = {}
\* get_file was refused on a name that the directory cache holds, while the
\* file cache holds other names.
CachesDisjointTried ==
  /\ DOMAIN cfiles # {}
  /\ \E x \in CallsMade :
       /\ CallAt(x).kind = "dir_get_file" /\ ResultAt(x).kind = "error"
       /\ CallAt(x).segs \in DOMAIN cdirs

\* C11: the caches never evict: a key of the file cache or of the directory
\* cache stays a key in every later state, mapped to the same object, and
\* every File reference handed out still names a cached File.
CacheNeverEvicts ==
  [][ /\ \A k \in DOMAIN cfiles :
           /\ k \in DOMAIN cfiles'
           /\ cfiles'[k].by = cfiles[k].by /\ cfiles'[k].stream = cfiles[k].stream
      /\ \A k \in DOMAIN cdirs : k \in DOMAIN cdirs' /\ cdirs'[k] = cdirs[k]
      /\ frefs \subseteq frefs' /\ frefs' \subseteq DOMAIN cfiles' ]_vars
\* A thread is past an insert that found the key taken, with other keys cached.
InsertOnCachedKey ==
  \E t \in Threads :
    /\ pc[t] = "gf_at" /\ call[t].made /\ call[t].ins = 0
    /\ Cardinality(DOMAIN cfiles) + Cardinality(DOMAIN cdirs) >= 2

\* C12: get_file fails with EntryNotFound when the name is no host entry or
\* is a directory, get_directory when it is none or is a file; what they
\* return otherwise is a handle of the kind asked for.
GetFailsEntryNotFound ==
  \A x \in CallsMade :
    LET c == CallAt(x)
        r == ResultAt(x)
    IN  /\ (c.kind = "dir_get_file" /\ r.kind # "none") =>
             /\ r.kind \in {"error", "file"}
             /\ r.kind = "file" => IsFile(r.obj)
             /\ ~IsFile(c.segs) => r.kind = "error"
             /\ r.kind = "error" => ErrorKind(r.err) = "EntryNotFound"
        /\ (c.kind = "dir_get_directory" /\ r.kind # "none") =>
             /\ r.kind \in {"error", "dir"}
             /\ r.kind = "dir" => IsDirectory(r.obj)
             /\ ~IsDirectory(c.segs) => r.kind = "error"
             /\ r.kind = "error" => ErrorKind(r.err) = "EntryNotFound"

\* C13: when Directory::open_file / open_directory finds no host entry under
\* the name, it makes an empty file / a directory there, and the call does
\* not fail: it returns the entry of that name from the cache, and the entry
\* is there for a following get_file / get_directory.
OpenCreatesMissing ==
  \A t \in Threads :
    call[t].absent =>
      LET k == Append(call[t].dir, call[t].name)
      IN  /\ call[t].kind \in {"fs_open_file", "read_into_string"} =>
                /\ IsFile(k) /\ file_exists(call[t].dir, call[t].name)
                /\ bytes[Norm(k)] = <<>>
                /\ pc[t] = "idle" =>
                     /\ ret[t].kind \in {"file", "bytes"}
                     /\ k \in DOMAIN cfiles
                     /\ ret[t].kind = "file" => ret[t].obj = k
          /\ call[t].kind = "fs_open_directory" =>
                /\ IsDirectory(k) /\ directory_exists(call[t].dir, call[t].name)
                /\ pc[t] = "idle" =>
                     /\ ret[t].kind = "dir" /\ ret[t].obj = k
                     /\ k \in DOMAIN cdirs
\* One call has made and returned a file, another a directory.
OpenCreatedBoth ==
  \E t, u \in Threads :
    /\ call[t].absent /\ pc[t] = "idle" /\ ret[t].kind = "file"
    /\ call[u].absent /\ pc[u] = "idle" /\ ret[u].kind = "dir"

\* C14: no operation is fatal to the process: whatever the threads call, in
\* whatever order, std::terminate is never reached.
NoOperationFatal == ~crashed

\* C15: the step in which a Directory::get_file or get_directory call fails
\* changes neither cache map and no lock, and the call has constructed and
\* inserted nothing before it: the caches are as the call found them.
FailedGetLeavesCaches ==
  [][ \A t \in Threads :
        ( /\ call[t].kind \in {"dir_get_file", "dir_get_directory"}
          /\ pc[t] # "idle" /\ pc'[t] = "idle" /\ ret'[t].kind = "error" )
        => /\ cfiles' = cfiles /\ cdirs' = cdirs /\ flock' = flock /\ dlock' = dlock
           /\ t \notin dlock[<<>>].shared \cup dlock[<<>>].unique
           /\ call[t].ins = 0 /\ ~call[t].made ]_vars
\* get_directory has failed on a name the file cache holds.
FailedGetOnCachedName ==
  \E x \in CallsMade :
    /\ CallAt(x).kind = "dir_get_directory" /\ ResultAt(x).kind = "error"
    /\ CallAt(x).segs \in DOMAIN cfiles

\* C16: a FileSystem::open_file or open_directory walk that fails has
\* inserted nothing into any Directory's cache: no directory visited before
\* the failure was constructed and cached by the call.
FailedWalkLeavesCaches ==
  \A t \in Threads :
    ( /\ call[t].kind \in {"fs_open_file", "fs_open_directory"}
      /\ pc[t] = "idle" /\ ret[t].kind = "error" )
    => call[t].ins = 0 /\ ~call[t].made

\* C17: FileSystem::open_file / open_directory with an absolute path fails
\* with InvalidPath in its first step: no directory is visited, nothing is
\* made on the host, and no cache changes.
AbsolutePathRejected ==
  [][ \A t \in Threads :
        (Len(log'[t]) > Len(log[t]) /\ call'[t].abs)
        => /\ pc'[t] = "idle"
           /\ ret'[t].kind = "error" /\ ErrorKind(ret'[t].err) = "InvalidPath"
           /\ log'[t][Len(log'[t])].r = ret'[t]
           /\ host' = host /\ bytes' = bytes
           /\ cfiles' = cfiles /\ cdirs' = cdirs ]_vars
\* An absolute path was rejected by a FileSystem that has cached entries.
AbsolutePathTried ==
  \E x \in CallsMade :
    /\ CallAt(x).abs /\ CallAt(x).segs # <<>> /\ ResultAt(x).kind = "error"
    /\ DOMAIN cdirs # {}

\* C18: Directory::get_parent fails, with InvalidPath, exactly on the root;
\* on a cached Directory it returns the Directory whose cache holds it: the
\* root, or the cached Directory under the key one segment shorter.
GetParentFailsOnRoot ==
  \A x \in CallsMade :
    LET c == CallAt(x)
        r == ResultAt(x)
    IN  c.kind = "get_parent" =>
          /\ r.kind = "error" <=> c.dir = <<>>
          /\ r.kind = "error" => ErrorKind(r.err) = "InvalidPath"
          /\ c.dir # <<>> =>
               /\ r.kind = "dir" /\ r.obj = Front(c.dir)
               /\ r.obj # <<>> => r.obj \in DOMAIN cdirs /\ r.by = cdirs[r.obj].by
\* get_parent on a Directory two levels down has returned the cached
\* Directory above it.
GetParentCalled ==
  \E x \in CallsMade :
    /\ CallAt(x).kind = "get_parent" /\ Len(CallAt(x).dir) = 2
    /\ ResultAt(x).kind = "dir" /\ ResultAt(x).obj \in DOMAIN cdirs

\* C19: FileSystem::open_file / open_directory with a relative path fall out
\* of the loop over the segments, failing with EntryNotFound, exactly when
\* the path has no segment.
EmptyPathNotFound ==
  \A x \in CallsMade :
    LET c == CallAt(x)
        r == ResultAt(x)
    IN  (c.kind \in {"fs_open_file", "fs_open_directory"} /\ ~c.abs) =>
          /\ (r.kind = "error" /\ r.err = "FileNotFound") <=> c.segs = <<>>
          /\ c.segs = <<>> => ErrorKind(r.err) = "EntryNotFound"
\* The empty path has failed, and a path ending in '.' has returned an entry.
EmptyPathTried ==
  \E x, y \in CallsMade :
    /\ CallAt(x).kind = "fs_open_directory" /\ CallAt(x).segs = <<>>
    /\ ResultAt(x).kind = "error"
    /\ CallAt(y).kind = "fs_open_directory" /\ CallAt(y).segs = <<".", ".">>
    /\ Entry(ResultAt(y))

\* C20: the Directory that FileSystem::open_directory returns for a relative
\* path is the one cached under the path with the '.', empty and '..'
\* segments before its last segment resolved away, so paths that differ only
\* in such segments return the same object.
DotSegmentsResolve ==
  \A x \in CallsMade :
    LET c == CallAt(x)
        r == ResultAt(x)
    IN  (c.kind = "fs_open_directory" /\ ~c.abs /\ r.kind = "dir") =>
          /\ r.obj = Append(Norm(Front(c.segs)), Last(c.segs))
          /\ r.obj \in DOMAIN cdirs /\ r.by = cdirs[r.obj].by
          /\ \A y \in CallsMade :
               (CallAt(y).kind = "fs_open_directory" /\ ResultAt(y).kind = "dir"
                /\ ResultAt(y).obj = r.obj) => ResultAt(y) = r
\* open_directory("d/../d") and open_directory("d") have returned the same object.
DotSegmentsWalked ==
  \E x, y \in CallsMade :
    /\ CallAt(x).kind = "fs_open_directory" /\ CallAt(x).segs = <<"d", "..", "d">>
    /\ CallAt(y).kind = "fs_open_directory" /\ CallAt(y).segs = <<"d">>
    /\ ResultAt(x).kind = "dir" /\ ResultAt(x) = ResultAt(y)

\* The segments '.' and '..', which name no entry of their own.
IsDotKey(k) == \E i \in 1..Len(k) : k[i] \in {".", "..", ""}

\* C21: FileSystem::open_file walks its non-final segments as open_directory
\* does: the File it returns for a relative path is the one cached under the
\* path with the '.', empty and '..' segments before the last one resolved
\* away, and its walk never stands in a Directory cached under '.' or '..'.
OpenFileWalksResolved ==
  /\ \A x \in CallsMade :
       LET c == CallAt(x)
           r == ResultAt(x)
       IN  (c.kind = "fs_open_file" /\ ~c.abs /\ r.kind = "file") =>
             r.obj = Append(Norm(Front(c.segs)), Last(c.segs))
  /\ \A t \in Threads :
       call[t].kind = "fs_open_file" => ~IsDotKey(call[t].dir)

\* The key under which the walk of a path caches the Directory of its i-th
\* segment: open_directory resolves the segments before it, open_file keeps them.
WalkKey(kind, segs, i) ==
  IF kind = "fs_open_directory"
  THEN Append(Norm(SubSeq(segs, 1, i - 1)), segs[i])
  ELSE SubSeq(segs, 1, i)
\* The segments of a path at which its walk calls get_directory.
Descents(kind, segs) ==
  {i \in 1..(Len(segs) - 1) : ~SkipsSegment(kind, segs[i])
                             /\ ~(kind = "fs_open_directory" /\ segs[i] = "..")}

\* C22: after a FileSystem::open_file / open_directory call has returned an
\* entry, every intermediate directory of its path is cached; and no call
\* asks the host about a name that a cache already holds: cached segments
\* are served from the cache alone.
WalkServedFromCache ==
  /\ \A x \in CallsMade :
       LET c == CallAt(x)
       IN  (c.kind \in {"fs_open_file", "fs_open_directory"} /\ Entry(ResultAt(x)))
           => \A i \in Descents(c.kind, c.segs) : WalkKey(c.kind, c.segs, i) \in DOMAIN cdirs
  /\ \A t \in Threads :
       call[t].kind \in {"fs_open_file", "fs_open_directory"} => ~call[t].hostq

\* Thread t has made two calls on one File, one after the other, the second
\* has returned, and no other thread has called anything.
AloneTwice(t) ==
  /\ Len(log[t]) = 2 /\ pc[t] = "idle"
  /\ \A u \in Threads \ {t} : log[u] = <<>>
  /\ log[t][1].c.f = log[t][2].c.f

\* C23: with no concurrent access, get_contents after set_contents(B) returns
\* exactly B, whatever the file held before, and read(0, len(B)) after
\* write(B, 0) returns exactly B.
RoundTrip ==
  \A t \in Threads :
    AloneTwice(t) =>
      LET a == log[t][1]
          b == log[t][2]
      IN  /\ (a.c.kind = "set_contents" /\ b.c.kind = "get_contents")
             => b.r = BytesRet(a.c.data)
          /\ ( /\ a.c.kind = "write" /\ a.c.pos = 0
               /\ b.c.kind = "read" /\ b.c.pos = 0 /\ b.c.count = Len(a.c.data) )
             => b.r = BytesRet(a.c.data)
\* set_contents of a string shorter than the contents, then get_contents.
RoundTripShorter ==
  \E t \in Threads :
    /\ AloneTwice(t) /\ bytes0[TheFile] = <<4, 5>>
    /\ log[t][1].c.kind = "set_contents" /\ log[t][1].c.data = <<1>>
    /\ log[t][2].c.kind = "get_contents" /\ log[t][2].r = BytesRet(<<1>>)

\* C24: with no concurrent access, get_contents after append(B) on a file
\* holding C returns C followed by B, and after clear and append(B) the file
\* holds exactly B.
AppendAccumulates ==
  \A t \in Threads :
    AloneTwice(t) =>
      LET a == log[t][1]
          b == log[t][2]
      IN  /\ (a.c.kind = "append" /\ b.c.kind = "get_contents")
             => b.r = BytesRet(bytes0[StreamOf(a.c.f)] \o a.c.data)
          /\ (a.c.kind = "clear" /\ b.c.kind = "append")
             => StreamBytes(b.c.f) = b.c.data
\* append on a file that holds something, then get_contents.
AppendedToContents ==
  \E t \in Threads :
    /\ AloneTwice(t)
    /\ log[t][1].c.kind = "append" /\ log[t][1].c.data = <<2, 3>>
    /\ log[t][2].c.kind = "get_contents" /\ log[t][2].r = BytesRet(<<4, 5, 2, 3>>)

Min(a, b) == IF a <= b THEN a ELSE b

\* C25: a read(pos, count) made while nothing else is called returns the
\* bytes of the file from pos on, count of them or as many as remain: its
\* length is max(0, min(count, size - pos)), and read(0, 0) returns nothing.
ReadReturnsWhatRemains ==
  \A t \in Threads :
    ( /\ Len(log[t]) = 1 /\ pc[t] = "idle" /\ call[t].kind = "read"
      /\ \A u \in Threads \ {t} : log[u] = <<>> )
    => LET c == bytes0[StreamOf(call[t].f)]
       IN  /\ ret[t].kind = "bytes"
           /\ Len(ret[t].bytes) = Max(0, Min(call[t].count, Len(c) - call[t].pos))
           /\ ret[t].bytes = RangeOf(c, call[t].pos, call[t].count)

\* C26: once File::set_name(new_name) has returned for a File opened at
\* D/old, the host has no entry D/old, it has the file D/new_name with the
\* contents D/old had, and the path of the File is D/new_name.
RenameMovesEntry ==
  \A t \in Threads :
    ( /\ call[t].kind = "set_name" /\ pc[t] = "idle"
      /\ call[t].name # Last(call[t].f)
      /\ \A x \in CallsMade : CallAt(x).kind = "set_name" => x[1] = t )
    => LET old == Norm(call[t].f)
           new == Norm(Append(Front(call[t].f), call[t].name))
       IN  /\ host[old] = "none"
           /\ host[new] = "file" /\ bytes[new] = bytes0[old]
           /\ cfiles[call[t].f].path = Append(Front(call[t].f), call[t].name)

\* C27: File::set_name runs under the File's write lock: in the step in
\* which it changes the path, no other thread holds the File's mutex, so none
\* is inside a read, write or clear of the same File.
SetNameUnderLock ==
  [][ \A t \in Threads :
        (pc[t] = "set_name" /\ cfiles' # cfiles)
        => /\ flock[call[t].f] = {}
           /\ \A u \in Threads \ {t} : ~(InIO(u) /\ call[u].f = call[t].f) ]_vars

\* The positions of the file that call c wrote, the file holding n bytes when
\* the call began, and the byte it wrote at position i (counted from 1).
WrittenAt(c, n) ==
  IF c.kind = "append" THEN (n + 1)..(n + Len(c.data))
  ELSE IF c.kind = "write" THEN (c.pos + 1)..(c.pos + Len(c.data))
  ELSE 1..Len(c.data)
WrittenByte(c, n, i) ==
  IF c.kind = "append" THEN c.data[i - n]
  ELSE IF c.kind = "write" THEN c.data[i - c.pos] ELSE c.data[i]

\* C28: a get_contents or read that starts after a write, append or
\* set_contents on the same File has returned, with no other write, returns at
\* every written position it covers the byte written there, and get_contents
\* covers them all.
ReadAfterWrite ==
  \A x, y \in CallsMade :
    LET w == CallAt(x)
        r == CallAt(y)
        n == Len(bytes0[TheFile])
    IN  ( /\ w.kind \in {"write", "append", "set_contents"}
          /\ r.kind \in {"read", "get_contents"} /\ r.f = w.f
          /\ x \in r.prior /\ ResultAt(y).kind = "bytes"
          /\ \A z \in CallsMade \ {x} : CallAt(z).kind \in {"read", "get_contents"} )
        => LET b == ResultAt(y).bytes
               from == IF r.kind = "read" THEN r.pos ELSE 0
           IN  /\ \A i \in WrittenAt(w, n) :
                    (i > from /\ i <= from + Len(b)) => b[i - from] = WrittenByte(w, n, i)
               /\ r.kind = "get_contents" =>
                    /\ \A i \in WrittenAt(w, n) : i <= Len(b)
                    /\ w.kind = "set_contents" => b = w.data
\* A thread has appended and returned, and another thread that called
\* get_contents after that has the appended bytes at the end of what it read.
ReadAfterAppend ==
  \E x, y \in CallsMade :
    /\ x[1] # y[1] /\ x \in CallAt(y).prior
    /\ CallAt(x).kind = "append" /\ CallAt(x).data = <<2, 3>>
    /\ CallAt(y).kind = "get_contents" /\ ResultAt(y).bytes = <<4, 5, 2, 3>>

\* The threads inside a section of a Directory's operations that runs under
\* its mutex held alone (the inserts) or shared (the returns of at()).
InInsert(d) == {t \in Threads : pc[t] \in {"cf_insert", "cd_insert"} /\ call[t].dir = d}
InLookup(d) == {t \in Threads : pc[t] \in {"gf_at", "gd_at"} /\ call[t].dir = d}

DirectoryGuardDistinct ==
  \A t \in Threads :
    ~crashed =>
      /\ (pc[t] = "cf_lock" /\ dlock[call[t].dir] = NoHolders) => ENABLED cf_lock(t)
      /\ (pc[t] = "cd_lock" /\ dlock[call[t].dir] = NoHolders) => ENABLED cd_lock(t)
      /\ (pc[t] = "gf_lock" /\ dlock[call[t].dir].unique = {}) => ENABLED gf_lock(t)
      /\ (pc[t] = "gd_lock" /\ dlock[call[t].dir].unique = {}) => ENABLED gd_lock(t)
      /\ (pc[t] = "read_lock" /\ flock[call[t].f] = {}) => ENABLED read_lock(t)
\* A thread holds the mutex of a File inside read while another one holds
\* the mutex of the File's Directory inside an insert of a sibling.
BothGuardsHeld ==
  \E t, u \in Threads :
    /\ pc[t] = "read_io" /\ flock[call[t].f] = {t}
    /\ pc[u] = "cd_insert" /\ dlock[call[u].dir].unique = {u}
    /\ call[u].dir = Front(call[t].f)
    /\ Append(call[u].dir, call[u].name) # call[t].f
\* c is a whole number of copies of m laid end to end.
IsCopies(c, m) ==
  /\ Len(c) % Len(m) = 0
  /\ \A i \in 1..Len(c) : c[i] = m[((i - 1) % Len(m)) + 1]

\* The run is the one of readers and writers of one message: the file was
\* empty at the start, and every call is get_contents or append(m).
ReadersAndAppenders(f, m) ==
  /\ bytes0[StreamOf(f)] = <<>>
  /\ \E y \in CallsMade : CallAt(y).kind = "append"
  /\ \A y \in CallsMade :
       /\ CallAt(y).f = f
       /\ \/ CallAt(y).kind = "get_contents"
          \/ CallAt(y).kind = "append" /\ CallAt(y).data = m

WritesAlone(t) ==
  /\ pc[t] = "write_io" /\ call[t].kind = "write"
  /\ \A u \in Threads \ {t} : pc[u] = "idle"
\* new differs from old only at the offsets pos .. pos + Len(B) - 1.
OutsideKept(old, new, pos, B) ==
  \A i \in 1..Len(old) :
    (i <= pos \/ i > pos + Len(B)) => (i <= Len(new) /\ new[i] = old[i])

\* C39 as stated: a write(B, pos) with no concurrent access keeps every byte
\* before pos and every existing byte at or after pos + len(B), and the new
\* size is max(old size, pos + len(B)).
WriteFrameAsStated ==
  [][\A t \in Threads :
       (WritesAlone(t) /\ pc'[t] = "idle")
       => LET h == StreamOf(call[t].f)
          IN  /\ OutsideKept(bytes[h], bytes'[h], call[t].pos, call[t].data)
              /\ Len(bytes'[h]) = Max(Len(bytes[h]), call[t].pos + Len(call[t].data))]_vars

\* C39, amended: the same, the new size being max(old size, pos + len(B))
\* when B is not empty and the old size when it is; no other host file and
\* no cache changes.
WriteChangesOnlyItsRange ==
  [][\A t \in Threads :
       (WritesAlone(t) /\ pc'[t] = "idle")
       => LET h == StreamOf(call[t].f)
              B == call[t].data
          IN  /\ OutsideKept(bytes[h], bytes'[h], call[t].pos, B)
              /\ Len(bytes'[h]) = IF B = <<>> THEN Len(bytes[h])
                                  ELSE Max(Len(bytes[h]), call[t].pos + Len(B))
              /\ \A g \in HostPaths \ {h} : bytes'[g] = bytes[g]
              /\ host' = host /\ cfiles' = cfiles /\ cdirs' = cdirs]_vars
\* A lone write of some bytes at offset 1 of a file that held bytes has
\* returned and changed the file.
WroteInsideFile ==
  \E t \in Threads :
    /\ pc[t] = "idle" /\ call[t].kind = "write" /\ ret[t].kind = "void"
    /\ Cardinality(CallsMade) = 1
    /\ call[t].pos = 1 /\ call[t].data # <<>>
    /\ bytes0[StreamOf(call[t].f)] # <<>>
    /\ bytes[StreamOf(call[t].f)] # bytes0[StreamOf(call[t].f)]

\* C40: the final cache lookup of Directory::get_file and get_directory never
\* fails: whenever a call stands at the lookup under the shared lock, or is
\* about to take that lock, the name is a key of the cache it looks in, and
\* no call has ended with the out_of_range of at().
FinalLookupFinds ==
  /\ \A t \in Threads :
       LET k == Append(call[t].dir, call[t].name)
       IN  /\ pc[t] \in {"gf_lock", "gf_at"} => k \in DOMAIN cfiles
           /\ pc[t] \in {"gd_lock", "gd_at"} => k \in DOMAIN cdirs
  /\ \A x \in CallsMade : ResultAt(x).err # "out_of_range"
\* A call that made an entry of its own stands at the lookup and finds the
\* entry another thread inserted first.
LookupFindsOthersEntry ==
  \E t \in Threads :
    LET k == Append(call[t].dir, call[t].name)
    IN  /\ call[t].made
        /\ \/ pc[t] = "gf_at" /\ t \in dlock[call[t].dir].shared /\ cfiles[k].by # t
           \/ pc[t] = "gd_at" /\ t \in dlock[call[t].dir].shared /\ cdirs[k].by # t

RECURSIVE ReachesRoot(_, _)
\* Following get_parent from Directory d reaches the root within n steps.
ReachesRoot(d, n) ==
  \/ d = <<>>
  \/ /\ n > 0 /\ d \in DOMAIN cdirs
     /\ get_parent(d).kind = "dir"
     /\ ReachesRoot(get_parent(d).obj, n - 1)

\* The Directory whose cache holds the entry with key k, and its path.
Holder(k) == Front(k)
PathOfDirectory(d) == IF d = <<>> THEN <<>> ELSE cdirs[d].path

\* C37: every cached child Directory d stored under name n in the cache of a
\* Directory p has p as its parent and p's path joined with n as its path,
\* and neither ever changes; the root alone has no parent, and following
\* get_parent from any cached Directory reaches the root in finitely many
\* steps.
ParentTree ==
  /\ get_parent(<<>>).kind = "error"
  /\ \A k \in DOMAIN cdirs :
       /\ k # <<>>
       /\ Holder(k) = <<>> \/ Holder(k) \in DOMAIN cdirs
       /\ cdirs[k].parent = Holder(k)
       /\ cdirs[k].path = Append(PathOfDirectory(Holder(k)), Last(k))
       /\ get_parent(k).kind = "dir" /\ get_parent(k).obj = Holder(k)
       /\ ReachesRoot(k, Len(k))
ParentsKept ==
  \A k \in DOMAIN cdirs :
    /\ k \in DOMAIN cdirs'
    /\ cdirs'[k].parent = cdirs[k].parent
    /\ cdirs'[k].path = cdirs[k].path
ParentReferencesFixed == []ParentTree /\ [][ParentsKept]_vars
\* get_parent was called on a Directory cached in another cached Directory
\* and returned that one.
GotParentOfNested ==
  \E x \in Returned :
    /\ CallAt(x).kind = "get_parent" /\ Len(CallAt(x).dir) = 2
    /\ ResultAt(x).kind = "dir" /\ ResultAt(x).obj = Front(CallAt(x).dir)
    /\ ResultAt(x).obj \in DOMAIN cdirs

\* The walk of thread t is at a segment that is not the last one of its path.
AtIntermediate(t) ==
  pc[t] # "idle" /\ call[t].kind \in FsKinds /\ Len(call[t].segs) > 1

\* C38: FileSystem::open_file and open_directory create only the terminal
\* entry of the path: no step of a walk before its last segment, and no entry
\* into a call, changes the host, and a walk that comes to an intermediate
\* segment naming no host directory fails there with an exception.
OnlyTerminalCreated ==
  [][LET t == Walker
     IN  /\ (pc[t] = "idle" \/ AtIntermediate(t)) => (host' = host /\ bytes' = bytes)
         /\ ( /\ AtIntermediate(t) /\ pc[t] = "gd_exists"
              /\ ~directory_exists(call[t].dir, call[t].name) )
            => /\ pc'[t] = "idle" /\ ~crashed'
               /\ ret'[t].kind = "error" /\ ret'[t].err = "InvalidPath"]_vars
\* A walk of two or more segments whose first segment names nothing on the
\* host has failed, and the host is as it was at the start.
WalkFailedAtMissingDirectory ==
  \E x \in Returned :
    /\ CallAt(x).kind \in {"fs_open_file", "fs_open_directory"}
    /\ Len(CallAt(x).segs) >= 2 /\ ~CallAt(x).abs
    /\ CallAt(x).segs[1] \in Names
    /\ host[<<CallAt(x).segs[1]>>] = "none"
    /\ ResultAt(x).kind = "error"
    /\ host = host0 /\ bytes = bytes0

\* C35: Directory::open_file never changes the contents of a file that is on
\* the host: when an open_file(name) raced with a thread that opened the same
\* absent name and wrote to it, and both have returned, the bytes the other
\* thread wrote are in the file.
\* Fails: create_file runs after the other thread's write and empties the file.
RacingOpenKeepsBytes ==
  \A x, y \in Returned :
    ( /\ AllIdle /\ ~crashed
      /\ CallAt(x).kind = "fs_open_file" /\ CallAt(y).kind = "open_and_write"
      /\ Norm(CallAt(x).segs) = Norm(CallAt(y).segs)
      /\ Norm(CallAt(y).segs) \in HostPaths
      /\ host0[Norm(CallAt(y).segs)] = "none"
      /\ ResultAt(x).kind = "file" /\ ResultAt(y).kind = "void" )
    => bytes[Norm(CallAt(y).segs)] = CallAt(y).data

\* The guards thread t holds: the mutexes of Files and of Directories.
Holds(t) ==
  {f \in DOMAIN flock : t \in flock[f]}
    \cup {d \in DOMAIN dlock : t \in dlock[d].shared \cup dlock[d].unique}
\* Thread t is at a step that takes a guard, waiting when it is not free.
Acquiring(t) ==
  pc[t] \in {"read_lock", "write_lock", "clear_lock", "gf_cached", "gd_cached",
             "cf_lock", "cd_lock", "gf_lock", "gd_lock"}
\* No thread waits for a guard while it holds one.
NoWaitWhileHolding == \A t \in Threads : Acquiring(t) => Holds(t) = {}

\* C36: no thread waits for a guard while it holds a guard, so threads running
\* File, Directory and FileSystem operations cannot deadlock: with every thread
\* scheduled fairly, every operation a thread is in eventually returns.
\* Fails: an operation that terminates the process never returns.
EveryOperationReturns ==
  /\ []NoWaitWhileHolding
  /\ \A t \in Threads : (pc[t] # "idle") ~> (pc[t] = "idle")
\* Short of the termination, it does.
ReturnsOrTerminates ==
  \A t \in Threads : (pc[t] # "idle") ~> (pc[t] = "idle" \/ crashed)

\* What stop and get_time of stopwatch s return, in one step of s.
RunMeasured(s) ==
  /\ (Stop(s) /\ started(s))
     => (sw'[s].value = clock_get_time - sw[s].began /\ ~sw'[s].is_started)
  /\ (Stop(s) /\ ~started(s)) => (sw'[s].value = 0 /\ ~sw'[s].is_started)
  /\ (GetTime(s) /\ ~started(s)) => (sw'[s].value = 0 /\ ~sw'[s].is_started)
\* Two stopwatches whose runs began and were stopped at the same clock times
\* have returned the same value; one that never started is not started.
EqualRuns ==
  /\ \A s \in Stopwatches : sw[s].op = "none" => ~started(s)
  /\ \A s1, s2 \in Stopwatches :
       ( /\ sw[s1].op = "stop" /\ sw[s2].op = "stop" /\ sw[s1].ran /\ sw[s2].ran
         /\ sw[s1].began = sw[s2].began /\ sw[s1].ended = sw[s2].ended )
       => sw[s1].value = sw[s2].value

\* C32: over any sequence of start, stop and get_time calls, stop() on a
\* running stopwatch returns the clock time elapsed since the start that began
\* the run and leaves it stopped; while stopped, get_time() and stop() return 0
\* and started() is false; two stopwatches on the same clock started and
\* stopped at the same clock times report equal values.
\* Fails for the Stopwatch of src/time.cpp, whose start() restarts a run.
StopwatchMeasuresRun ==
  /\ []EqualRuns
  /\ [][\A s \in Stopwatches : RunMeasured(s)]_vars
\* It holds for the Stopwatch of the header.
HeaderStopwatchMeasuresRun ==
  /\ [](build = "header" => EqualRuns)
  /\ [][build = "header" => \A s \in Stopwatches : RunMeasured(s)]_vars

RECURSIVE LinesTo(_, _)
\* The lines of the deliveries in h that went to the default stream strm, one
\* after the other.
LinesTo(strm, h) ==
  IF h = <<>> THEN <<>>
  ELSE LET e == h[Len(h)]
       IN  LinesTo(strm, Front(h))
             \o (IF e.to = strm THEN DefaultLine(e.level, e.msg) ELSE <<>>)

\* C33: for every level the StandardLogger sends a message to exactly one
\* sink: the 'all' function when it is set, whatever the per-level functions
\* are, otherwise the level's function when it is set, otherwise the default
\* sink of the level; with LogFunctions{} set, every level uses its default
\* sink. The default streams hold the lines of the messages that went to the
\* default sinks and nothing else.
OneSinkPerMessage ==
  /\ \A i \in 1..Len(sent) :
       LET e == sent[i]
       IN  /\ e.fns["all"] # Null => e.to = e.fns["all"]
           /\ (e.fns["all"] = Null /\ e.fns[e.level] # Null) => e.to = e.fns[e.level]
           /\ (e.fns["all"] = Null /\ e.fns[e.level] = Null)
              => e.to = DefaultStream(e.level)
           /\ e.fns = NoFunctions => e.to \in {"cout", "cerr"}
  /\ lpc[Caller].at = "idle"
     => (cout = LinesTo("cout", sent) /\ cerr = LinesTo("cerr", sent))
\* A message went to the 'all' function although its level had a function of
\* its own, and a later one, after set_log_functions(LogFunctions{}), went to
\* the default sink.
SinksOverriddenThenReset ==
  /\ Len(sent) = 2
  /\ sent[1].fns["all"] = "f" /\ sent[1].fns[sent[1].level] = "g" /\ sent[1].to = "f"
  /\ sent[2].fns = NoFunctions /\ sent[2].to = "cerr" /\ cerr # <<>>

\* C34: when several threads log through the default sinks concurrently, every
\* message appears in its output stream complete and contiguous exactly once,
\* in some order: each stream is, at every moment, the whole lines of the
\* calls that have finished on it, one after the other.
LinesWholeOnce ==
  /\ cout = LinesTo("cout", sent)
  /\ cerr = LinesTo("cerr", sent)
  /\ \A i \in 1..Len(sent) : sent[i].to = DefaultStream(sent[i].level)
\* Two threads were inside their log calls on the same stream at once, and
\* both lines are out.
LoggedAtOnce ==
  /\ Len(sent) = 2
  /\ sent[1].by # sent[2].by /\ sent[1].among = Threads
  /\ sent[1].to = "cerr" /\ sent[2].to = "cerr"
  /\ Len(cerr) = 6

====
